---------------------------- MODULE Spec2Model ----------------------------
(***************************************************************************)
(* FocusTutor backend (Focus_Flow): session orchestration (app.py), the    *)
(* two timers (timers/), the productivity score (analytics/metrics.py) and *)
(* the SQLite session table (data/storage.py).                             *)
(*                                                                         *)
(* Conventions.                                                            *)
(*  - Instants of time.monotonic() are integers (clock units); sums and    *)
(*    differences of instants are exact.  datetime.utcnow() is read off    *)
(*    the same time line.                                                  *)
(*  - Optional[x] is a sequence: None is << >>, a value v is << v >>.       *)
(*  - Non-integer floats (minutes, ratios, scores) are exact fractions     *)
(*    << numerator, denominator >> in lowest terms, denominator > 0.       *)
(***************************************************************************)
EXTENDS Integers, Sequences, FiniteSets, TLC

VARIABLES
    \* --- app.py / storage.py ---
    now,        \* time.monotonic(), the process clock
    active,     \* _active_sessions: session id -> the two timers
    sessions,   \* rows of the SQLite table "sessions": id -> row
    last,       \* the last request handled and its response (observation)
    env,        \* study_env: the shared StudyEnvironment
    q,          \* rl_agent._q: state key -> action -> Q-value
    nrec,       \* number of recommendation requests served
    scope,      \* which bounded part of the behaviours this run explores
    samples,    \* per session id, the attention samples fed to its
                \* ProductivityTimer, in order (observation)
    tick,       \* where the attention polling task stands in its iteration
    camera,     \* the CameraCapture resource: "open" or "released"
    \* --- one ProductivityTimer driven by an injected time source ---
    tnow,       \* the injected time source
    pt,         \* the timer object
    tcall,      \* the last call made on it
    tpre,       \* the timer object before that call (observation)
    onlyTrue,   \* every call since the last start() was update(True)
    \* --- calculate_productivity_score as a pure function ---
    arg_p,      \* productive_seconds argument
    arg_t,      \* total_seconds argument
    result,     \* what the call returned or raised; << >> before the call
    \* --- one SessionTimer driven call by call ---
    stm,        \* the SessionTimer object
    scall,      \* the last call made on it, with what elapsed() returned
    sghost,     \* instants of the last start() and of the last stop() after it
    \* --- one RLAgent driven call by call ---
    agent,      \* the RLAgent object: its epsilon and its Q-table
    acall,      \* the last call made on it, with what select_action returned
    aghost,     \* number of update() calls; keys whose all-zero row received
                \* one rewarded take_break update and no changing update since
    \* --- one StudyEnvironment driven call by call ---
    study,      \* the StudyEnvironment object
    ecall,      \* the last call made on it, with what step() returned
    \* --- the table "schedules" driven call by call ---
    schedules,  \* rows of the SQLite table "schedules": id -> row
    kcall,      \* the last storage call, with what get_schedule returned
    ksaved,     \* per schedule id, the schedule last passed to save_schedule
    \* --- stop_session and the polling task statement by statement ---
    reqs,       \* per worker thread, the position and locals of its
                \* stop_session call
    objs,       \* the entry dicts made by start_session, by session id; an
                \* entry outlives its removal from _active_sessions while a
                \* thread holds a reference to it
    poll        \* the position and locals of _poll_attention

appVars   == <<now, active, sessions, last, env, q, nrec, scope, samples, tick, camera>>
timerVars == <<tnow, pt, tcall, tpre, onlyTrue>>
scoreVars == <<arg_p, arg_t, result>>
sessionTimerVars == <<stm, scall, sghost>>
agentVars == <<agent, acall, aghost>>
envVars   == <<study, ecall>>
scheduleVars == <<schedules, kcall, ksaved>>
raceVars  == <<reqs, objs, poll>>
unitVars  == <<sessionTimerVars, agentVars, envVars, scheduleVars, raceVars>>
vars      == <<now, active, sessions, last, env, q, nrec, scope, samples, tick, camera, tnow, pt, tcall, tpre, onlyTrue,
               arg_p, arg_t, result, stm, scall, sghost, agent, acall, aghost,
               study, ecall, schedules, kcall, ksaved, reqs, objs, poll>>

(***************************************************************************)
(* Bounds of the model.                                                    *)
(***************************************************************************)
MaxClock == 4       \* the process clock runs from BootClock to MaxClock
RecMaxClock == 2    \* ... and to RecMaxClock in runs that serve recommendations
MaxLag   == 1       \* clock units that may pass between two reads in a handler
MaxT     == 4       \* the injected time source runs from 0 to MaxT
MaxArg   == 6       \* score arguments range over -MaxArg .. MaxArg
MaxRecs  == 2       \* recommendation requests served in one run
ScenMaxClock == 5   \* ... to ScenMaxClock in the single-session runs
MaxSamples == 4     \* polling ticks a single-session run lets a session see
PollMaxClock == 2   \* ... to PollMaxClock in the runs that interleave the tick
BootClock == 1      \* time.monotonic() when the process starts (never 0)
Ids      == {"s1", "s2"}     \* the values uuid4() may return
RecIds   == {"s1"}           \* ... in runs that serve recommendations
NoId     == "none"

(***************************************************************************)
(* Python values.                                                          *)
(***************************************************************************)
None      == << >>
Some(v)   == << v >>
Val(o)    == o[1]

Abs(n)    == IF n < 0 THEN -n ELSE n
Max(a, b) == IF a >= b THEN a ELSE b
Min(a, b) == IF a <= b THEN a ELSE b

RECURSIVE GCD(_, _)
GCD(a, b) == IF b = 0 THEN a ELSE GCD(b, a % b)

\* The fraction n/d (d # 0) in lowest terms with a positive denominator.
Frac(n, d) ==
    LET s == IF d < 0 THEN -1 ELSE 1
        g == GCD(Abs(n), Abs(d))
    IN  << (s * n) \div g, (s * d) \div g >>

Zero == << 0, 1 >>
One  == << 1, 1 >>
\* x and y over their least common denominator (keeps the integers small)
LCD(x, y)   == (x[2] \div GCD(x[2], y[2])) * y[2]
Scaled(x, l) == x[1] * (l \div x[2])
RLeq(x, y)  == Scaled(x, LCD(x, y)) <= Scaled(y, LCD(x, y))
RLess(x, y) == Scaled(x, LCD(x, y)) <  Scaled(y, LCD(x, y))
\* Python's max(a, b) / min(a, b): the first argument wins a tie.
RMax(x, y)  == IF RLess(x, y) THEN y ELSE x
RMin(x, y)  == IF RLess(y, x) THEN y ELSE x

RAdd(x, y)  == Frac(Scaled(x, LCD(x, y)) + Scaled(y, LCD(x, y)), LCD(x, y))
RSub(x, y)  == Frac(Scaled(x, LCD(x, y)) - Scaled(y, LCD(x, y)), LCD(x, y))
RMul(x, y)  ==
    LET g1 == GCD(Abs(x[1]), y[2])
        g2 == GCD(Abs(y[1]), x[2])
    IN  Frac((x[1] \div g1) * (y[1] \div g2), (x[2] \div g2) * (y[2] \div g1))
Whole(n)    == << n, 1 >>

\* Python's a / b on numbers: ZeroDivisionError when b = 0.
Returned(v) == [exc |-> "none", val |-> v]
Raised(e)   == [exc |-> e, val |-> Zero]
TrueDiv(a, b) == IF b = 0 THEN Raised("ZeroDivisionError") ELSE Returned(Frac(a, b))

(***************************************************************************)
(* analytics/metrics.py                                                    *)
(***************************************************************************)
\* variants of the guard and of the clamp (used to test the properties below)
calculate_productivity_score_strict(productive_seconds, total_seconds) ==
    IF total_seconds < 0 THEN Returned(Zero)
    ELSE LET ratio == TrueDiv(productive_seconds, total_seconds)
         IN  IF ratio.exc # "none" THEN ratio
             ELSE Returned(RMin(One, RMax(Zero, ratio.val)))

calculate_productivity_score_noclamp(productive_seconds, total_seconds) ==
    IF total_seconds <= 0 THEN Returned(Zero)
    ELSE LET ratio == TrueDiv(productive_seconds, total_seconds)
         IN  IF ratio.exc # "none" THEN ratio
             ELSE Returned(RMax(Zero, ratio.val))

calculate_productivity_score(productive_seconds, total_seconds) ==
    IF total_seconds <= 0 THEN Returned(Zero)
    ELSE LET ratio == TrueDiv(productive_seconds, total_seconds)
         IN  IF ratio.exc # "none" THEN ratio
             ELSE Returned(RMin(One, RMax(Zero, ratio.val)))

(***************************************************************************)
(* timers/session_timer.py                                                 *)
(***************************************************************************)
SessionTimer_init == [start_time |-> None, stop_time |-> None]

SessionTimer_start(t, clock) ==
    [t EXCEPT !.start_time = Some(clock), !.stop_time = None]

SessionTimer_stop(t, clock) == [t EXCEPT !.stop_time = Some(clock)]

\* variant: the stop instant is ignored (used to test the properties)
SessionTimer_elapsed_live(t, clock) ==
    IF t.start_time = None THEN 0 ELSE Max(0, clock - Val(t.start_time))

SessionTimer_elapsed(t, clock) ==
    IF t.start_time = None THEN 0
    ELSE LET end == IF t.stop_time # None THEN Val(t.stop_time) ELSE clock
         IN  Max(0, end - Val(t.start_time))

(***************************************************************************)
(* timers/productivity.py                                                  *)
(***************************************************************************)
ProductivityTimer_init ==
    [start_time |-> None, stop_time |-> None,
     productive_seconds |-> 0, last_update_time |-> None]

ProductivityTimer_start(t, clock) ==
    [start_time |-> Some(clock), last_update_time |-> Some(clock),
     stop_time |-> None, productive_seconds |-> 0]

ProductivityTimer_stop(t, clock) == [t EXCEPT !.stop_time = Some(clock)]

\* Python's `x or y` on Optional[float]: None and 0.0 are both falsy.
OrElse(o, y) == IF o = None \/ Val(o) = 0 THEN y ELSE Val(o)

\* variants of update (used to test the properties below)
ProductivityTimer_update_unguarded(t, is_attentive, clock) ==
    LET delta == clock - OrElse(t.last_update_time, clock)
    IN  [t EXCEPT !.last_update_time = Some(clock),
                  !.productive_seconds =
                      IF is_attentive /\ delta > 0 THEN @ + delta ELSE @]

ProductivityTimer_update_always(t, is_attentive, clock) ==
    IF t.start_time = None \/ t.stop_time # None THEN t
    ELSE LET delta == clock - OrElse(t.last_update_time, clock)
         IN  [t EXCEPT !.last_update_time = Some(clock),
                       !.productive_seconds = IF delta > 0 THEN @ + delta ELSE @]

ProductivityTimer_update(t, is_attentive, clock) ==
    IF t.start_time = None \/ t.stop_time # None THEN t
    ELSE LET delta == clock - OrElse(t.last_update_time, clock)
         IN  [t EXCEPT !.last_update_time = Some(clock),
                       !.productive_seconds =
                           IF is_attentive /\ delta > 0 THEN @ + delta ELSE @]

ProductivityTimer_total_elapsed(t, clock) ==
    IF t.start_time = None THEN 0
    ELSE LET end == IF t.stop_time # None THEN Val(t.stop_time) ELSE clock
         IN  Max(0, end - Val(t.start_time))

Running(t) == t.start_time # None /\ t.stop_time = None


(***************************************************************************)
(* Values the variables of a part hold while another part is exercised.    *)
(***************************************************************************)
EmptyMap  == [x \in {} |-> x]
NoRequest == [op |-> "none", id |-> NoId, status |-> 0, resp |-> None,
              obs |-> None]
NoCall    == [op |-> "none", arg |-> FALSE, at |-> 0]
\* the polling task before its first iteration: `pc` is its position,
\* `turn` flips at every iteration, `outcome` tells how the last one ended;
\* `sample`, `size`, `opened` and `visited` describe the running iteration
Sleeping  == [pc |-> "sleep", turn |-> 0, outcome |-> "none",
              sample |-> "none", size |-> 0, visited |-> {}, opened |-> {}]
NoTimerCall == [op |-> "none", at |-> 0, ret |-> 0]
NoInstants  == [s |-> None, e |-> None]
NoAgentCall == [op |-> "none", state |-> None, next_state |-> None,
                action |-> "none", reward |-> << 0, 1 >>, explore |-> FALSE]
NoUpdates   == [updates |-> 0, boosted |-> {}]
NoRead      == [at |-> 0, delta |-> 0]
IdleRequest == [pc |-> "idle", session_id |-> "none", checked |-> FALSE,
                sample |-> "none", read |-> NoRead, total_seconds |-> 0,
                productive_seconds |-> 0, status |-> 0, body |-> << >>]
Threads     == {1, 2}
NoRequests  == [r \in Threads |-> IdleRequest]
IdlePoll    == [pc |-> "sleep", at |-> 0, sample |-> "none", entry |-> "none",
                visited |-> {}, size |-> 0, read |-> NoRead]
NoStorageCall == [op |-> "none", id |-> "none", ret |-> << >>]
NoEnvCall   == [op |-> "none", action |-> "none", args |-> << >>,
                pre |-> << >>,
                reward |-> << 0, 1 >>, done |-> FALSE, state |-> << >>]

(***************************************************************************)
(* data/models.py and data/storage.py: the Session model and the table     *)
(* "sessions" (id TEXT PRIMARY KEY).  A row holds the encoded columns.     *)
(***************************************************************************)
\* Session(id=..., start_time=...): the other fields take their defaults.
Session(id, start_time) ==
    [id |-> id, start_time |-> Some(start_time), end_time |-> None,
     duration_minutes |-> Zero, productivity_score |-> Zero,
     productive_seconds |-> 0]

\* datetime.isoformat() and datetime.fromisoformat(): text and back.
isoformat(dt)      == [iso |-> dt]
fromisoformat(txt) == txt.iso

\* `dt.isoformat() if dt else None` (a datetime is always truthy)
EncodeTime(o) == IF o # None THEN Some(isoformat(Val(o))) ELSE None
\* `datetime.fromisoformat(col) if col else None`
DecodeTime(c) == IF c # None THEN Some(fromisoformat(Val(c))) ELSE None

RowOf(session) ==
    [start_time |-> EncodeTime(session.start_time),
     end_time |-> EncodeTime(session.end_time),
     duration_minutes |-> session.duration_minutes,
     productivity_score |-> session.productivity_score,
     productive_seconds |-> session.productive_seconds]

Put(tbl, id, row) ==
    [k \in DOMAIN tbl \cup {id} |-> IF k = id THEN row ELSE tbl[k]]

\* INSERT OR REPLACE in place of INSERT (variant used to test the properties)
create_session_replace(tbl, session) ==
    [exc |-> "none", tbl |-> Put(tbl, session.id, RowOf(session))]

\* INSERT INTO sessions: a second row with the same primary key is refused.
create_session(tbl, session) ==
    IF session.id \in DOMAIN tbl
    THEN [exc |-> "IntegrityError", tbl |-> tbl]
    ELSE [exc |-> "none", tbl |-> Put(tbl, session.id, RowOf(session))]

\* `col or 0` on the REAL columns: NULL and 0 both read as 0.
RealOrZero(x) == IF x = Zero THEN Zero ELSE x
IntOrZero(n)  == IF n = 0 THEN 0 ELSE n

\* a lookup that never finds the row (variant used to test the properties)
get_session_missing(tbl, session_id) == None

get_session(tbl, session_id) ==
    IF session_id \notin DOMAIN tbl THEN None
    ELSE LET row == tbl[session_id] IN
         Some([id |-> session_id,
               start_time |-> DecodeTime(row.start_time),
               end_time |-> DecodeTime(row.end_time),
               duration_minutes |-> RealOrZero(row.duration_minutes),
               productivity_score |-> RealOrZero(row.productivity_score),
               productive_seconds |-> IntOrZero(row.productive_seconds)])

\* UPDATE without the WHERE clause (variant used to test the properties)
update_session_every_row(tbl, session) ==
    [k \in DOMAIN tbl |-> RowOf(session)]

\* UPDATE sessions SET ... WHERE id=?: no row, no change.
update_session(tbl, session) ==
    IF session.id \in DOMAIN tbl THEN Put(tbl, session.id, RowOf(session))
    ELSE tbl

(***************************************************************************)
(* data/models.py and data/storage.py: Task, StudySchedule and the table   *)
(* "schedules" (id TEXT PRIMARY KEY, tasks_json, intervals_json,           *)
(* recurrence).  JSON text is modelled by the JSON values it denotes.      *)
(***************************************************************************)
JString(x)  == [json |-> "string", v |-> x]
JNumber(n)  == [json |-> "number", v |-> n]
JBoolean(b) == [json |-> IF b THEN "true" ELSE "false"]
FromJBoolean(j) == j.json = "true"

\* Task.model_dump(): the fields in declaration order
model_dump(task) ==
    << << "id", JString(task.id) >>, << "name", JString(task.name) >>,
       << "duration_minutes", JNumber(task.duration_minutes) >>,
       << "completed", JBoolean(task.completed) >> >>

\* the member `key` of a JSON object
Member(obj, key) == obj[CHOOSE i \in 1 .. Len(obj) : obj[i][1] = key][2]

\* Task(**t)
Task(t) ==
    [id |-> Member(t, "id").v, name |-> Member(t, "name").v,
     duration_minutes |-> Member(t, "duration_minutes").v,
     completed |-> FromJBoolean(Member(t, "completed"))]

\* json.dumps([t.model_dump() for t in schedule.tasks]) and back
json_dumps_tasks(tasks) == [i \in 1 .. Len(tasks) |-> model_dump(tasks[i])]
json_loads_tasks(txt)   == [i \in 1 .. Len(txt) |-> Task(txt[i])]

\* `json.dumps(schedule.intervals) if schedule.intervals else None`: None and
\* the empty list are both stored as NULL
json_dumps_intervals(o) ==
    IF o # None /\ Val(o) # << >>
    THEN Some([i \in 1 .. Len(Val(o)) |-> JNumber(Val(o)[i])])
    ELSE None
\* `json.loads(row[2]) if row[2] else None`
json_loads_intervals(c) ==
    IF c # None THEN Some([i \in 1 .. Len(Val(c)) |-> Val(c)[i].v]) ELSE None

ScheduleRow(schedule) ==
    [tasks_json |-> json_dumps_tasks(schedule.tasks),
     intervals_json |-> json_dumps_intervals(schedule.intervals),
     recurrence |-> schedule.recurrence]

\* INSERT OR IGNORE in place of INSERT OR REPLACE (variant)
save_schedule_ignore(tbl, schedule) ==
    IF schedule.id \in DOMAIN tbl THEN tbl
    ELSE Put(tbl, schedule.id, ScheduleRow(schedule))

\* INSERT OR REPLACE INTO schedules
save_schedule(tbl, schedule) == Put(tbl, schedule.id, ScheduleRow(schedule))

get_schedule(tbl, schedule_id) ==
    IF schedule_id \notin DOMAIN tbl THEN None
    ELSE LET row == tbl[schedule_id] IN
         Some([id |-> schedule_id,
               tasks |-> json_loads_tasks(row.tasks_json),
               intervals |-> json_loads_intervals(row.intervals_json),
               recurrence |-> row.recurrence])

(***************************************************************************)
(* rl/environment.py                                                       *)
(***************************************************************************)
StudyEnvironment_init ==
    [attention_level |-> One, time_in_session_seconds |-> Zero,
     productive_ratio |-> Zero]

get_state(e) == e

\* variant: encourage adds 0.1 without the cap at 1.0
step_uncapped(e, action) ==
    IF action = "take_break"
    THEN [env |-> [e EXCEPT !.attention_level = One], reward |-> Frac(1, 10),
          done |-> FALSE]
    ELSE [env |-> [e EXCEPT !.attention_level =
                      RAdd(e.attention_level, Frac(1, 10))],
          reward |-> Frac(5, 100), done |-> FALSE]

\* variant: continue is rewarded by the level before the decay
step_reward_before(e, action) ==
    IF action = "take_break"
    THEN [env |-> [e EXCEPT !.attention_level = One], reward |-> Frac(1, 10),
          done |-> FALSE]
    ELSE IF action = "encourage"
    THEN [env |-> [e EXCEPT !.attention_level =
                      RMin(One, RAdd(e.attention_level, Frac(1, 10)))],
          reward |-> Frac(5, 100), done |-> FALSE]
    ELSE IF action = "continue"
    THEN LET decay == RMul(Frac(1, 100),
                           RMul(e.time_in_session_seconds, Frac(1, 60)))
             level == RMax(Zero, RSub(e.attention_level,
                                      RMul(decay, Frac(1, 10))))
         IN  [env |-> [e EXCEPT !.attention_level = level],
              reward |-> IF RLess(Frac(1, 2), e.attention_level)
                         THEN Frac(2, 100) ELSE Frac(-2, 100),
              done |-> FALSE]
    ELSE [env |-> e, reward |-> Zero, done |-> FALSE]

\* step(action): the environment after the step and the reward
step(e, action) ==
    IF action = "take_break"
    THEN [env |-> [e EXCEPT !.attention_level = One], reward |-> Frac(1, 10),
          done |-> FALSE]
    ELSE IF action = "encourage"
    THEN [env |-> [e EXCEPT !.attention_level =
                      RMin(One, RAdd(e.attention_level, Frac(1, 10)))],
          reward |-> Frac(5, 100), done |-> FALSE]
    ELSE IF action = "continue"
    THEN LET decay == RMul(Frac(1, 100),
                           RMul(e.time_in_session_seconds, Frac(1, 60)))
             level == RMax(Zero, RSub(e.attention_level,
                                      RMul(decay, Frac(1, 10))))
         IN  [env |-> [e EXCEPT !.attention_level = level],
              reward |-> IF RLess(Frac(1, 2), level) THEN Frac(2, 100)
                         ELSE Frac(-2, 100),
              done |-> FALSE]
    ELSE [env |-> e, reward |-> Zero, done |-> FALSE]

\* variant: the arguments are dropped
set_state_noop(e, new_attention_level, new_time_in_session_seconds, new_productive_ratio) == e

\* variant: `if attention_level:` in place of `is not None`, so that a
\* supplied 0 is taken for an omitted argument
set_state_truthy(e, new_attention_level, new_time_in_session_seconds, new_productive_ratio) ==
    [attention_level |->
         IF new_attention_level \notin {None, Some(Zero)}
         THEN Val(new_attention_level) ELSE e.attention_level,
     time_in_session_seconds |->
         IF new_time_in_session_seconds \notin {None, Some(Zero)}
         THEN Val(new_time_in_session_seconds)
         ELSE e.time_in_session_seconds,
     productive_ratio |->
         IF new_productive_ratio \notin {None, Some(Zero)}
         THEN Val(new_productive_ratio) ELSE e.productive_ratio]

\* set_state(attention_level=..., time_in_session_seconds=...,
\*           productive_ratio=...): an argument of None leaves the field
set_state(e, new_attention_level, new_time_in_session_seconds, new_productive_ratio) ==
    [attention_level |->
         IF new_attention_level # None THEN Val(new_attention_level)
         ELSE e.attention_level,
     time_in_session_seconds |->
         IF new_time_in_session_seconds # None
         THEN Val(new_time_in_session_seconds)
         ELSE e.time_in_session_seconds,
     productive_ratio |->
         IF new_productive_ratio # None THEN Val(new_productive_ratio)
         ELSE e.productive_ratio]

(***************************************************************************)
(* rl/agent.py                                                             *)
(***************************************************************************)
\* ACTIONS = ["continue", "take_break", "encourage"]
Actions == << "continue", "take_break", "encourage" >>
ActionSet == {Actions[i] : i \in 1 .. Len(Actions)}
learning_rate == Frac(1, 10)
gamma         == Frac(99, 100)

\* variant: a value equal to a bound falls in the bucket below it
bin_inclusive(value, bins) ==
    LET below == {i \in 1 .. Len(bins) : RLeq(value, bins[i])}
    IN  IF below = {} THEN Len(bins)
        ELSE (CHOOSE i \in below : \A j \in below : i <= j) - 1

\* _bin(value, bins): the index of the first bound above value
bin(value, bins) ==
    LET below == {i \in 1 .. Len(bins) : RLess(value, bins[i])}
    IN  IF below = {} THEN Len(bins)
        ELSE (CHOOSE i \in below : \A j \in below : i <= j) - 1

state_key(state) ==
    << bin(state.attention_level, << Frac(33, 100), Frac(66, 100) >>),
       bin(RMul(state.time_in_session_seconds, Frac(1, 3600)),
           << Frac(25, 100), Frac(1, 2) >>),
       bin(state.productive_ratio, << Frac(33, 100), Frac(66, 100) >>) >>

ZeroRow == [a \in ActionSet |-> Zero]

\* variant: a new row starts at 1.0
Materialize_ones(tbl, key) ==
    IF key \in DOMAIN tbl THEN tbl ELSE Put(tbl, key, [a \in ActionSet |-> One])

\* `if key not in self._q: self._q[key] = {a: 0.0 for a in Actions}`
Materialize(tbl, key) == IF key \in DOMAIN tbl THEN tbl ELSE Put(tbl, key, ZeroRow)

\* _get_q(state_key, action) (the row is materialized by the callers first)
get_q(tbl, key, action) == Materialize(tbl, key)[key][action]

\* _max_q_next(next_state_key): 0.0 for an unseen key, which is not inserted
max_q_next(tbl, key) ==
    IF key \notin DOMAIN tbl THEN Zero
    ELSE LET vals == {tbl[key][a] : a \in ActionSet}
         IN  CHOOSE v \in vals : \A w \in vals : RLeq(w, v)

\* RLAgent(epsilon=...): learning_rate and gamma keep their defaults
RLAgent_init(epsilon) == [epsilon |-> epsilon, q |-> EmptyMap]

\* variant: the last action holding the largest Q-value
Greedy_last(tbl, key) ==
    LET best == {i \in 1 .. Len(Actions) :
                    \A j \in 1 .. Len(Actions) :
                        RLeq(get_q(tbl, key, Actions[j]),
                             get_q(tbl, key, Actions[i]))}
    IN  Actions[CHOOSE i \in best : \A j \in best : j <= i]

\* max(Actions, key=...): the first action holding the largest Q-value
Greedy(tbl, key) ==
    LET best == {i \in 1 .. Len(Actions) :
                    \A j \in 1 .. Len(Actions) :
                        RLeq(get_q(tbl, key, Actions[j]),
                             get_q(tbl, key, Actions[i]))}
    IN  Actions[CHOOSE i \in best : \A j \in best : i <= j]

\* variant: the confidence is taken from the largest Q-value of the row
select_action_maxq(tbl, state, explore, pick) ==
    LET key    == state_key(state)
        tbl1   == Materialize(tbl, key)
        action == IF explore THEN pick ELSE Greedy(tbl1, key)
        q_val  == get_q(tbl1, key, Greedy(tbl1, key))
    IN  [q |-> tbl1, action |-> action,
         confidence |-> RMin(One, RMax(Zero, RAdd(Frac(1, 2),
                                                  RMul(q_val, Frac(1, 10)))))]

\* select_action(state): `explore` is random.random() < epsilon and `pick`
\* is random.choice(Actions)
select_action(tbl, state, explore, pick) ==
    LET key    == state_key(state)
        tbl1   == Materialize(tbl, key)
        action == IF explore THEN pick ELSE Greedy(tbl1, key)
        q_val  == get_q(tbl1, key, action)
    IN  [q |-> tbl1, action |-> action,
         confidence |-> RMin(One, RMax(Zero, RAdd(Frac(1, 2),
                                                  RMul(q_val, Frac(1, 10)))))]

\* variant: the new value is computed and not stored
update_discard(tbl, state, action, reward, next_state) ==
    Materialize(tbl, state_key(state))

\* variant: the target is the reward alone, next_state is ignored
update_no_next(tbl, state, action, reward, next_state) ==
    LET s_key  == state_key(state)
        tbl1   == Materialize(tbl, s_key)
        q_old  == get_q(tbl1, s_key, action)
    IN  [tbl1 EXCEPT ![s_key][action] =
            RAdd(q_old, RMul(learning_rate, RSub(reward, q_old)))]

\* update(state, action, reward, next_state)
update(tbl, state, action, reward, next_state) ==
    LET s_key  == state_key(state)
        tbl1   == Materialize(tbl, s_key)
        q_old  == get_q(tbl1, s_key, action)
        target == IF next_state # None
                  THEN RAdd(reward,
                            RMul(gamma, max_q_next(tbl1, state_key(Val(next_state)))))
                  ELSE reward
    IN  [tbl1 EXCEPT ![s_key][action] =
            RAdd(q_old, RMul(learning_rate, RSub(target, q_old)))]

(***************************************************************************)
(* app.py: the session endpoints and the attention polling task.           *)
(***************************************************************************)
ReqIds  == Ids \cup {"unknown"}      \* ids a request may carry
Samples == {"attentive", "inattentive", "error"}
    \* is_attentive(camera.capture_frame()): True, False, or an exception
Lags    == 0 .. MaxLag

\* A run explores either the session endpoints over Ids up to MaxClock, or
\* all endpoints, the recommendation included, over RecIds up to RecMaxClock.
Scopes   == {"sessions", "recommendations", "scenario"}
Pool     == IF scope \in {"sessions", "polling"} THEN Ids ELSE RecIds
Horizon  == IF scope = "sessions" THEN MaxClock
            ELSE IF scope = "recommendations" THEN RecMaxClock
            ELSE IF scope = "scenario" THEN ScenMaxClock
            ELSE PollMaxClock
RecLimit == IF scope = "recommendations" THEN MaxRecs ELSE 0
\* the samples fed to the timers are recorded in the single-session runs
Recording == scope = "scenario"
Sample(at, attentive) == [at |-> at, attentive |-> attentive]

Without(f, id) == [k \in DOMAIN f \ {id} |-> f[k]]

Response(op, id, status, resp, obs) ==
    [op |-> op, id |-> id, status |-> status, resp |-> resp, obs |-> obs]

\* total_seconds / 60
Minutes(total_seconds) == Frac(total_seconds, 60)

\* time passes between two requests
Advance ==
    /\ now < Horizon
    /\ now' = now + 1
    /\ UNCHANGED <<active, sessions, last, env, q, nrec, scope, samples, tick,
                   timerVars, scoreVars, unitVars, camera>>

\* POST /session/start
StartSession ==
    \E session_id \in Pool, lag \in Lags :
        /\ now + lag <= Horizon
        /\ LET session_timer      == SessionTimer_start(SessionTimer_init, now)
               productivity_timer ==
                   ProductivityTimer_start(ProductivityTimer_init, now + lag)
               session == Session(session_id, now + lag)
               created == create_session(sessions, session)
               fresh   == session_id \notin (DOMAIN active \cup DOMAIN sessions)
           IN  /\ now' = now + lag
               /\ IF created.exc # "none"
                  THEN /\ UNCHANGED <<active, sessions>>
                       /\ last' = Response("start", session_id, 500, None,
                                           Some([fresh |-> fresh]))
                  ELSE /\ sessions' = created.tbl
                       /\ active' = Put(active, session_id,
                              [session_timer |-> session_timer,
                               productivity_timer |-> productivity_timer])
                       /\ last' = Response("start", session_id, 200,
                                           Some(session_id),
                                           Some([fresh |-> fresh]))
               /\ samples' = IF Recording /\ created.exc = "none"
                             THEN Put(samples, session_id, << >>)
                             ELSE samples
        /\ UNCHANGED <<env, q, nrec, scope, tick, timerVars, scoreVars, unitVars, camera>>

\* `if session_id not in _active_sessions: raise HTTPException(404)`
\* variant: the check looks at the persisted table instead of the open set
stop_session_known_persisted(session_id) == session_id \in DOMAIN sessions

stop_session_known(session_id) == session_id \in DOMAIN active

\* productivity_timer.update(attentive); session_timer.stop();
\* productivity_timer.stop()  -- the final sample is read at t_sample, the
\* stop instants at t_stop.
\* variant: the timers are stopped before the final sample is fed
FinalizeTimers_stop_first(entry, attentive, t_sample, t_stop) ==
    [session_timer |-> SessionTimer_stop(entry.session_timer, t_stop),
     productivity_timer |->
         ProductivityTimer_update(
             ProductivityTimer_stop(entry.productivity_timer, t_stop),
             attentive, t_sample)]

FinalizeTimers(entry, attentive, t_sample, t_stop) ==
    [session_timer |-> SessionTimer_stop(entry.session_timer, t_stop),
     productivity_timer |->
         ProductivityTimer_stop(
             ProductivityTimer_update(entry.productivity_timer, attentive,
                                      t_sample),
             t_stop)]

\* POST /session/stop
StopSession ==
    \E session_id \in ReqIds, sample \in Samples, lag \in Lags :
        /\ now + lag <= Horizon
        /\ IF ~stop_session_known(session_id)
           THEN /\ last' = Response("stop", session_id, 404, None, None)
                /\ UNCHANGED <<now, active, sessions>>
           ELSE IF session_id \notin DOMAIN active       \* pop(): KeyError
           THEN /\ last' = Response("stop", session_id, 500, None, None)
                /\ UNCHANGED <<now, active, sessions>>
           ELSE IF sample = "error"   \* capture_frame / is_attentive raises
           THEN /\ active' = Without(active, session_id)
                /\ last' = Response("stop", session_id, 500, None, None)
                /\ UNCHANGED <<now, sessions>>
           ELSE
             LET entry  == active[session_id]
                 timers == FinalizeTimers(entry, sample = "attentive",
                                          now, now + lag)
                 total_seconds == SessionTimer_elapsed(timers.session_timer,
                                                       now + lag)
                 productive_seconds ==
                     timers.productivity_timer.productive_seconds
                 score == calculate_productivity_score(productive_seconds,
                                                       total_seconds)
                 found == get_session(sessions, session_id)
                 obs == Some([sample |-> sample, pre |-> entry,
                              t_sample |-> now, t_stop |-> now + lag])
             IN  /\ active' = Without(active, session_id)
                 /\ now' = now + lag
                 /\ IF score.exc # "none"
                    THEN /\ last' = Response("stop", session_id, 500, None, obs)
                         /\ UNCHANGED sessions
                    ELSE /\ sessions' =
                              IF found # None
                              THEN update_session(sessions,
                                     [Val(found) EXCEPT
                                        !.end_time = Some(now + lag),
                                        !.duration_minutes = Minutes(total_seconds),
                                        !.productivity_score = score.val,
                                        !.productive_seconds = productive_seconds])
                              ELSE sessions
                         /\ last' = Response("stop", session_id, 200,
                              Some([session_id |-> session_id,
                                    duration_minutes |-> Minutes(total_seconds),
                                    productivity_score |-> score.val]),
                              obs)
        /\ samples' = IF Recording /\ stop_session_known(session_id)
                         /\ session_id \in DOMAIN active /\ sample # "error"
                      THEN [samples EXCEPT ![session_id] =
                              Append(@, Sample(now, sample = "attentive"))]
                      ELSE samples
        /\ UNCHANGED <<env, q, nrec, scope, tick, timerVars, scoreVars, unitVars, camera>>

\* GET /session/{session_id}
GetSessionSummary ==
    \E session_id \in ReqIds :
        /\ LET session == get_session(sessions, session_id)
           IN  last' = IF session = None
                       THEN Response("summary", session_id, 404, None, None)
                       ELSE Response("summary", session_id, 200, session, None)
        /\ UNCHANGED <<now, active, sessions, env, q, nrec, scope, samples, tick,
                       timerVars, scoreVars, unitVars, camera>>

\* one iteration of _poll_attention that no start_session or stop_session
\* interrupts: one sample for every open session; an exception is swallowed.
\* (TickSample .. TickDone below take the iteration step by step.)
PollAttention ==
    \E sample \in Samples :
        /\ Recording => \A id \in DOMAIN active :
               /\ Len(samples[id]) < MaxSamples
               /\ samples[id] # << >> => samples[id][Len(samples[id])].at < now
        /\ samples' =
             IF Recording /\ sample # "error"
             THEN [id \in DOMAIN samples |->
                     IF id \in DOMAIN active
                     THEN Append(samples[id], Sample(now, sample = "attentive"))
                     ELSE samples[id]]
             ELSE samples
        /\ active' =
             IF sample = "error" THEN active
             ELSE [id \in DOMAIN active |->
                     [active[id] EXCEPT !.productivity_timer =
                        ProductivityTimer_update(@, sample = "attentive", now)]]
        /\ last' = Response("tick", NoId, 0, None, Some([sample |-> sample]))
        /\ UNCHANGED <<now, sessions, env, q, nrec, scope, tick,
                       timerVars, scoreVars, unitVars, camera>>

\* GET /recommendation
GetRecommendation ==
    \E session_id \in ReqIds \cup {NoId}, explore \in BOOLEAN,
       pick \in ActionSet :
        /\ nrec < RecLimit
        /\ nrec' = nrec + 1
        /\ LET synced ==
                 IF session_id # NoId /\ session_id \in DOMAIN active
                 THEN LET prod_timer == active[session_id].productivity_timer
                          total == ProductivityTimer_total_elapsed(prod_timer, now)
                          productive == prod_timer.productive_seconds
                          ratio == IF total > 0 THEN Frac(productive, total)
                                   ELSE Zero
                      IN  set_state(env, Some(ratio), Some(Whole(total)),
                                    Some(ratio))
                 ELSE env
               state    == get_state(synced)
               selected == select_action(q, state, explore, pick)
               stepped  == step(synced, selected.action)
           IN  /\ env' = stepped.env
               /\ q' = update(selected.q, state, selected.action,
                              stepped.reward, Some(get_state(stepped.env)))
               /\ last' = Response("recommend", session_id, 200,
                                   Some([action |-> selected.action,
                                         confidence |-> selected.confidence]),
                                   None)
        /\ UNCHANGED <<now, active, sessions, scope, samples, tick,
                       timerVars, scoreVars, unitVars, camera>>

Init ==
    /\ now = BootClock /\ active = EmptyMap /\ sessions = EmptyMap
    /\ last = NoRequest /\ samples = EmptyMap /\ tick = Sleeping
    /\ camera = "open"
    /\ env = StudyEnvironment_init /\ q = EmptyMap /\ nrec = 0
    /\ scope \in Scopes
    /\ tnow = 0 /\ pt = ProductivityTimer_init /\ tpre = ProductivityTimer_init
    /\ tcall = NoCall /\ onlyTrue = FALSE
    /\ arg_p = 0 /\ arg_t = 0 /\ result = None
    /\ stm = SessionTimer_init /\ scall = NoTimerCall /\ sghost = NoInstants
    /\ agent = RLAgent_init(Frac(1, 10)) /\ acall = NoAgentCall
    /\ aghost = NoUpdates
    /\ study = StudyEnvironment_init /\ ecall = NoEnvCall
    /\ schedules = EmptyMap /\ kcall = NoStorageCall /\ ksaved = EmptyMap
    /\ reqs = NoRequests /\ objs = EmptyMap /\ poll = IdlePoll

Next ==
    \/ Advance
    \/ StartSession
    \/ StopSession
    \/ GetSessionSummary
    \/ PollAttention
    \/ GetRecommendation

Spec == Init /\ [][Next]_vars

(***************************************************************************)
(* app.py: the polling task taken step by step.  _poll_attention runs on   *)
(* the event loop while start_session and stop_session, being plain `def`  *)
(* endpoints, run on worker threads, so their writes to _active_sessions   *)
(* fall between two steps of the task's `for` loop.                        *)
(***************************************************************************)
\* variant: no try/except around the body, an exception ends the task
poll_attention_after_unguarded(raised) == IF raised THEN "dead" ELSE "sleep"

\* `except Exception: pass`, then `await asyncio.sleep(2.0)`
poll_attention_after(raised) == "sleep"

PollInit ==
    /\ now = BootClock /\ active = EmptyMap /\ sessions = EmptyMap
    /\ last = NoRequest /\ samples = EmptyMap /\ tick = Sleeping
    /\ camera = "open"
    /\ env = StudyEnvironment_init /\ q = EmptyMap /\ nrec = 0
    /\ scope = "polling"
    /\ tnow = 0 /\ pt = ProductivityTimer_init /\ tpre = ProductivityTimer_init
    /\ tcall = NoCall /\ onlyTrue = FALSE
    /\ arg_p = 0 /\ arg_t = 0 /\ result = None
    /\ stm = SessionTimer_init /\ scall = NoTimerCall /\ sghost = NoInstants
    /\ agent = RLAgent_init(Frac(1, 10)) /\ acall = NoAgentCall
    /\ aghost = NoUpdates
    /\ study = StudyEnvironment_init /\ ecall = NoEnvCall
    /\ schedules = EmptyMap /\ kcall = NoStorageCall /\ ksaved = EmptyMap
    /\ reqs = NoRequests /\ objs = EmptyMap /\ poll = IdlePoll

\* lines 69-71: the frame is captured and judged, then the iterator over
\* _active_sessions.values() is created; an exception goes to line 74
TickSample ==
    \E sample \in Samples :
        /\ tick.pc = "sleep"
        /\ tick' = IF sample = "error"
                   THEN [tick EXCEPT !.pc = poll_attention_after(TRUE),
                                     !.turn = 1 - @, !.outcome = "failed",
                                     !.sample = sample, !.size = 0,
                                     !.visited = {}, !.opened = {}]
                   ELSE [tick EXCEPT !.pc = "iter", !.turn = 1 - @,
                                     !.sample = sample,
                                     !.size = Cardinality(DOMAIN active),
                                     !.visited = {},
                                     !.opened = DOMAIN active]
        /\ UNCHANGED <<now, active, sessions, last, env, q, nrec, scope,
                       samples, timerVars, scoreVars, unitVars, camera>>

\* lines 71-73: the iterator yields the next entry and its timer is updated
TickVisit ==
    \E id \in DOMAIN active \ tick.visited :
        /\ tick.pc = "iter"
        /\ Cardinality(DOMAIN active) = tick.size
        /\ active' = [active EXCEPT ![id].productivity_timer =
                         ProductivityTimer_update(@, tick.sample = "attentive",
                                                  now)]
        /\ tick' = [tick EXCEPT !.visited = @ \cup {id}]
        /\ UNCHANGED <<now, sessions, last, env, q, nrec, scope, samples,
                       timerVars, scoreVars, unitVars, camera>>

\* line 71: the dict has another size than when the iterator was created:
\* "RuntimeError: dictionary changed size during iteration", caught at 74
TickRaise ==
    /\ tick.pc = "iter"
    /\ Cardinality(DOMAIN active) # tick.size
    /\ tick' = [tick EXCEPT !.pc = poll_attention_after(TRUE),
                            !.outcome = "raised"]
    /\ UNCHANGED <<now, active, sessions, last, env, q, nrec, scope, samples,
                   timerVars, scoreVars, unitVars, camera>>

\* line 71: the iterator is exhausted; line 76
TickDone ==
    /\ tick.pc = "iter"
    /\ Cardinality(DOMAIN active) = tick.size
    /\ DOMAIN active \ tick.visited = {}
    /\ tick' = [tick EXCEPT !.pc = poll_attention_after(FALSE),
                            !.outcome = "done"]
    /\ UNCHANGED <<now, active, sessions, last, env, q, nrec, scope, samples,
                   timerVars, scoreVars, unitVars, camera>>

\* variant: the task's end is not awaited before the camera is released
shutdown_awaited_skipped(pc) == pc \in {"cancelling", "cancelled"}

\* `await _attention_task` returns once the cancelled task has ended
shutdown_awaited(pc) == pc = "cancelled"

\* shutdown(), lines 91-92: the task, suspended at its sleep, is cancelled
Shutdown ==
    /\ tick.pc = "sleep"
    /\ tick' = [tick EXCEPT !.pc = "cancelling"]
    /\ UNCHANGED <<now, active, sessions, last, env, q, nrec, scope, samples,
                   timerVars, scoreVars, unitVars, camera>>

\* line 76: CancelledError is raised at the await, outside the try, and
\* ends the task
TaskCancelled ==
    /\ tick.pc = "cancelling"
    /\ tick' = [tick EXCEPT !.pc = "cancelled"]
    /\ UNCHANGED <<now, active, sessions, last, env, q, nrec, scope, samples,
                   timerVars, scoreVars, unitVars, camera>>

\* shutdown(), lines 93-97: the await is over, camera.release()
ShutdownRelease ==
    /\ shutdown_awaited(tick.pc)
    /\ camera = "open"
    /\ camera' = "released"
    /\ UNCHANGED <<now, active, sessions, last, env, q, nrec, scope, samples,
                   tick, timerVars, scoreVars, unitVars>>

TickStep == TickSample \/ TickVisit \/ TickRaise \/ TickDone

PollNext ==
    \/ Advance
    \/ StartSession
    \/ StopSession
    \/ TickSample
    \/ TickVisit
    \/ TickRaise
    \/ TickDone
    \/ Shutdown
    \/ TaskCancelled
    \/ ShutdownRelease

SpecPoll == PollInit /\ [][PollNext]_vars

\* the event loop resumes the task whenever its sleep is over
SpecPollLive == PollInit /\ [][PollNext]_vars /\ WF_vars(TickStep)

(***************************************************************************)
(* Properties of the session endpoints (checked under Spec).  `last` is    *)
(* the request handled by the step that led to the state.                  *)
(***************************************************************************)
Finalized(id) == id \in DOMAIN sessions /\ sessions[id].end_time # None

\* C1: stop_session(id) with id not in the open-session set answers 404 and
\* leaves the open-session set, the timers and every persisted record
\* unchanged; in particular a stop of an already finalized session answers
\* 404.
C1_StopNotOpen ==
    [][ (last'.op = "stop" /\ last' # last) =>
          /\ last'.id \notin DOMAIN active =>
                 (last'.status = 404 /\ active' = active /\ sessions' = sessions)
          /\ Finalized(last'.id) => last'.status = 404 ]_vars

C1_Witness ==
    /\ last.op = "stop" /\ last.status = 404
    /\ Finalized(last.id)
    /\ DOMAIN active # {}

\* C2: after a successful stop_session(id), id is no longer open and its
\* record has end_time set, duration_minutes = elapsed / 60,
\* productive_seconds = the seconds accumulated before the call plus the
\* interval up to the final sample when that sample is attentive, and
\* productivity_score = score(productive_seconds, elapsed); the response
\* carries the record's duration_minutes and productivity_score.
C2_StopFinalizes ==
    (last.op = "stop" /\ last.status = 200) =>
        LET o   == Val(last.obs)
            elapsed    == o.t_stop - Val(o.pre.session_timer.start_time)
            productive ==
                o.pre.productivity_timer.productive_seconds
                + (IF o.sample = "attentive"
                   THEN o.t_sample - Val(o.pre.productivity_timer.last_update_time)
                   ELSE 0)
            row == sessions[last.id]
        IN  /\ last.id \notin DOMAIN active
            /\ last.id \in DOMAIN sessions
            /\ row.end_time # None
            /\ row.duration_minutes[1] * 60 = elapsed * row.duration_minutes[2]
            /\ row.productive_seconds = productive
            /\ row.productivity_score =
                   calculate_productivity_score(productive, elapsed).val
            /\ Val(last.resp).duration_minutes = row.duration_minutes
            /\ Val(last.resp).productivity_score = row.productivity_score

C2_Witness ==
    /\ last.op = "stop" /\ last.status = 200
    /\ Val(last.obs).sample = "attentive"
    /\ Val(last.obs).t_sample >
           Val(Val(last.obs).pre.productivity_timer.last_update_time)
    /\ Val(last.obs).t_stop > Val(last.obs).t_sample
    /\ sessions[last.id].productive_seconds >
           Val(last.obs).t_sample
           - Val(Val(last.obs).pre.productivity_timer.last_update_time)

\* C3: start_session returns an id that was neither open nor persisted
\* before, and every open id has a persisted record with a start time and no
\* end time and two started, not yet stopped timers; right after the start
\* the productive seconds are 0.
C3_OpenSessionsWellFormed ==
    /\ \A id \in DOMAIN active :
          /\ id \in DOMAIN sessions
          /\ sessions[id].start_time # None
          /\ sessions[id].end_time = None
          /\ Running(active[id].session_timer)
          /\ Running(active[id].productivity_timer)
    /\ (last.op = "start" /\ last.status = 200) =>
          /\ Val(last.obs).fresh
          /\ last.resp = Some(last.id)
          /\ last.id \in DOMAIN active
          /\ active[last.id].productivity_timer.productive_seconds = 0

C3_Witness ==
    /\ last.op = "start" /\ last.status = 200
    /\ \E id \in DOMAIN active : id # last.id
    /\ now > BootClock

\* C4: a record is written at start_session with its id and start time only
\* and changed once, by the stop_session that finalizes it; no later step
\* (start_session, stop_session of any id, poll tick, get_recommendation,
\* get-session) changes a finalized record, and no record is ever deleted.
C4_RecordWrittenOnceFinalizedOnce ==
    [][ /\ \A id \in DOMAIN sessions :
              /\ id \in DOMAIN sessions'
              /\ Finalized(id) => sessions'[id] = sessions[id]
              /\ sessions'[id] # sessions[id] =>
                     /\ last'.op = "stop" /\ last'.id = id /\ last'.status = 200
                     /\ sessions'[id].end_time # None
                     /\ sessions'[id].start_time = sessions[id].start_time
        /\ \A id \in DOMAIN sessions' \ DOMAIN sessions :
              /\ last'.op = "start" /\ last'.id = id /\ last'.status = 200
              /\ sessions'[id].start_time # None
              /\ sessions'[id].end_time = None
              /\ sessions'[id].duration_minutes = Zero
              /\ sessions'[id].productivity_score = Zero
              /\ sessions'[id].productive_seconds = 0 ]_vars

C4_Witness ==
    /\ last.op = "recommend"
    /\ \E id \in DOMAIN sessions :
          Finalized(id) /\ sessions[id].productive_seconds > 0

\* C5 as stated: get-session(id) answers 404 when the id is unknown and also
\* when the session was closed by stop_session.
C5_SummaryNotFoundWhenClosed ==
    (last.op = "summary" /\ (last.id \notin DOMAIN sessions \/ Finalized(last.id)))
        => last.status = 404

\* C5 amended: get-session(id) answers 404 exactly when no record with that
\* id was ever persisted; for a session closed by stop_session (and for an
\* open one) it answers 200 with the persisted record.
C5_SummaryNotFoundOnlyWhenUnknown ==
    last.op = "summary" =>
        /\ last.status = 404 <=> last.id \notin DOMAIN sessions
        /\ last.id \in DOMAIN sessions =>
              /\ last.status = 200
              /\ Val(last.resp).id = last.id
              /\ RowOf(Val(last.resp)) = sessions[last.id]

C5_Witness ==
    /\ last.op = "summary" /\ last.status = 200
    /\ Finalized(last.id)
    /\ Val(last.resp).end_time # None
    /\ Val(last.resp).productive_seconds > 0

(***************************************************************************)
(* calculate_productivity_score called on arbitrary arguments.             *)
(***************************************************************************)
Args == (-MaxArg) .. MaxArg

ScoreInit ==
    /\ arg_p \in Args /\ arg_t \in Args /\ result = None
    /\ now = BootClock /\ active = EmptyMap /\ sessions = EmptyMap
    /\ last = NoRequest /\ samples = EmptyMap /\ tick = Sleeping
    /\ camera = "open"
    /\ env = StudyEnvironment_init /\ q = EmptyMap /\ nrec = 0
    /\ scope = "sessions"
    /\ tnow = 0 /\ pt = ProductivityTimer_init /\ tpre = ProductivityTimer_init
    /\ tcall = NoCall /\ onlyTrue = FALSE
    /\ stm = SessionTimer_init /\ scall = NoTimerCall /\ sghost = NoInstants
    /\ agent = RLAgent_init(Frac(1, 10)) /\ acall = NoAgentCall
    /\ aghost = NoUpdates
    /\ study = StudyEnvironment_init /\ ecall = NoEnvCall
    /\ schedules = EmptyMap /\ kcall = NoStorageCall /\ ksaved = EmptyMap
    /\ reqs = NoRequests /\ objs = EmptyMap /\ poll = IdlePoll

ScoreCall ==
    /\ result = None
    /\ result' = Some(calculate_productivity_score(arg_p, arg_t))
    /\ UNCHANGED <<arg_p, arg_t, appVars, timerVars, unitVars>>

ScoreNewArgs ==
    /\ result # None
    /\ arg_p' \in Args /\ arg_t' \in Args /\ result' = None
    /\ UNCHANGED <<appVars, timerVars, unitVars>>

ScoreNext == ScoreCall \/ ScoreNewArgs

SpecScore == ScoreInit /\ [][ScoreNext]_vars

(***************************************************************************)
(* One ProductivityTimer under an injected time source: any sequence of    *)
(* start(), stop() and update(b) at non-decreasing instants.               *)
(***************************************************************************)
TimerInit ==
    /\ tnow = 0 /\ pt = ProductivityTimer_init /\ tpre = ProductivityTimer_init
    /\ tcall = NoCall /\ onlyTrue = FALSE
    /\ now = BootClock /\ active = EmptyMap /\ sessions = EmptyMap
    /\ last = NoRequest /\ samples = EmptyMap /\ tick = Sleeping
    /\ camera = "open"
    /\ env = StudyEnvironment_init /\ q = EmptyMap /\ nrec = 0
    /\ scope = "sessions"
    /\ arg_p = 0 /\ arg_t = 0 /\ result = None
    /\ stm = SessionTimer_init /\ scall = NoTimerCall /\ sghost = NoInstants
    /\ agent = RLAgent_init(Frac(1, 10)) /\ acall = NoAgentCall
    /\ aghost = NoUpdates
    /\ study = StudyEnvironment_init /\ ecall = NoEnvCall
    /\ schedules = EmptyMap /\ kcall = NoStorageCall /\ ksaved = EmptyMap
    /\ reqs = NoRequests /\ objs = EmptyMap /\ poll = IdlePoll

TimerAdvance ==
    /\ tnow < MaxT
    /\ tnow' = tnow + 1
    /\ UNCHANGED <<pt, tcall, tpre, onlyTrue, appVars, scoreVars, unitVars>>

TimerStart ==
    /\ pt' = ProductivityTimer_start(pt, tnow)
    /\ tpre' = pt
    /\ tcall' = [op |-> "start", arg |-> FALSE, at |-> tnow]
    /\ onlyTrue' = TRUE
    /\ UNCHANGED <<tnow, appVars, scoreVars, unitVars>>

TimerStop ==
    /\ pt' = ProductivityTimer_stop(pt, tnow)
    /\ tpre' = pt
    /\ tcall' = [op |-> "stop", arg |-> FALSE, at |-> tnow]
    /\ onlyTrue' = FALSE
    /\ UNCHANGED <<tnow, appVars, scoreVars, unitVars>>

TimerUpdate(is_attentive) ==
    /\ pt' = ProductivityTimer_update(pt, is_attentive, tnow)
    /\ tpre' = pt
    /\ tcall' = [op |-> "update", arg |-> is_attentive, at |-> tnow]
    /\ onlyTrue' = (onlyTrue /\ is_attentive)
    /\ UNCHANGED <<tnow, appVars, scoreVars, unitVars>>

TimerNext ==
    \/ TimerAdvance
    \/ TimerStart
    \/ TimerStop
    \/ \E b \in BOOLEAN : TimerUpdate(b)

SpecTimer == TimerInit /\ [][TimerNext]_vars

(***************************************************************************)
(* One SessionTimer under an injected time source: any sequence of         *)
(* start(), stop() and elapsed() at non-decreasing instants.               *)
(***************************************************************************)
SessionTimerInit ==
    /\ stm = SessionTimer_init /\ scall = NoTimerCall /\ sghost = NoInstants
    /\ agent = RLAgent_init(Frac(1, 10)) /\ acall = NoAgentCall
    /\ aghost = NoUpdates
    /\ study = StudyEnvironment_init /\ ecall = NoEnvCall
    /\ schedules = EmptyMap /\ kcall = NoStorageCall /\ ksaved = EmptyMap
    /\ reqs = NoRequests /\ objs = EmptyMap /\ poll = IdlePoll
    /\ tnow = 0 /\ pt = ProductivityTimer_init /\ tpre = ProductivityTimer_init
    /\ tcall = NoCall /\ onlyTrue = FALSE
    /\ now = BootClock /\ active = EmptyMap /\ sessions = EmptyMap
    /\ last = NoRequest /\ samples = EmptyMap /\ tick = Sleeping
    /\ camera = "open"
    /\ env = StudyEnvironment_init /\ q = EmptyMap /\ nrec = 0
    /\ scope = "sessions"
    /\ arg_p = 0 /\ arg_t = 0 /\ result = None

SessionTimerAdvance ==
    /\ tnow < MaxT
    /\ tnow' = tnow + 1
    /\ UNCHANGED <<pt, tcall, tpre, onlyTrue, appVars, scoreVars, unitVars>>

SessionTimerStart ==
    /\ stm' = SessionTimer_start(stm, tnow)
    /\ scall' = [op |-> "start", at |-> tnow, ret |-> 0]
    /\ sghost' = [s |-> Some(tnow), e |-> None]
    /\ UNCHANGED <<appVars, timerVars, scoreVars, agentVars, envVars,
                   scheduleVars, raceVars>>

SessionTimerStop ==
    /\ stm' = SessionTimer_stop(stm, tnow)
    /\ scall' = [op |-> "stop", at |-> tnow, ret |-> 0]
    /\ sghost' = IF sghost.s = None THEN sghost
                 ELSE [sghost EXCEPT !.e = Some(tnow)]
    /\ UNCHANGED <<appVars, timerVars, scoreVars, agentVars, envVars,
                   scheduleVars, raceVars>>

SessionTimerElapsed ==
    /\ scall' = [op |-> "elapsed", at |-> tnow,
                 ret |-> SessionTimer_elapsed(stm, tnow)]
    /\ UNCHANGED <<stm, sghost, appVars, timerVars, scoreVars, agentVars,
                   envVars,
                   scheduleVars, raceVars>>

SessionTimerNext ==
    \/ SessionTimerAdvance
    \/ SessionTimerStart
    \/ SessionTimerStop
    \/ SessionTimerElapsed

SpecSessionTimer == SessionTimerInit /\ [][SessionTimerNext]_vars

(***************************************************************************)
(* One RLAgent driven call by call: any sequence of select_action(state)   *)
(* and update(state, action, reward, next_state).                          *)
(***************************************************************************)
MaxUpdates == 2
BigReward  == 10
Epsilons   == {Zero, Frac(1, 10)}                \* RLAgent(epsilon=...)
Randoms    == {Zero, Frac(1, 20), Frac(1, 2)}    \* random.random(), in [0, 1)
AgentStates ==
    {[attention_level |-> One, time_in_session_seconds |-> Zero,
      productive_ratio |-> One],
     [attention_level |-> Frac(7, 10), time_in_session_seconds |-> Whole(60),
      productive_ratio |-> One],
     [attention_level |-> Frac(33, 100),
      time_in_session_seconds |-> Whole(900),
      productive_ratio |-> Frac(66, 100)]}
AgentRewards == {Whole(-1), Zero, Whole(BigReward)}

AgentInit ==
    /\ agent \in {RLAgent_init(e) : e \in Epsilons}
    /\ acall = NoAgentCall /\ aghost = NoUpdates
    /\ study = StudyEnvironment_init /\ ecall = NoEnvCall
    /\ schedules = EmptyMap /\ kcall = NoStorageCall /\ ksaved = EmptyMap
    /\ reqs = NoRequests /\ objs = EmptyMap /\ poll = IdlePoll
    /\ stm = SessionTimer_init /\ scall = NoTimerCall /\ sghost = NoInstants
    /\ tnow = 0 /\ pt = ProductivityTimer_init /\ tpre = ProductivityTimer_init
    /\ tcall = NoCall /\ onlyTrue = FALSE
    /\ now = BootClock /\ active = EmptyMap /\ sessions = EmptyMap
    /\ last = NoRequest /\ samples = EmptyMap /\ tick = Sleeping
    /\ camera = "open"
    /\ env = StudyEnvironment_init /\ q = EmptyMap /\ nrec = 0
    /\ scope = "sessions"
    /\ arg_p = 0 /\ arg_t = 0 /\ result = None

AgentSelect ==
    \E state \in AgentStates, random \in Randoms, pick \in ActionSet :
        LET explore  == RLess(random, agent.epsilon)
            selected == select_action(agent.q, state, explore, pick)
        IN  /\ agent' = [agent EXCEPT !.q = selected.q]
            /\ acall' = [op |-> "select", state |-> Some(state),
                         next_state |-> None, action |-> selected.action,
                         reward |-> Zero, explore |-> explore]
            /\ UNCHANGED <<aghost, appVars, timerVars, scoreVars,
                           sessionTimerVars, envVars,
                   scheduleVars, raceVars>>

AgentUpdate ==
    \E state \in AgentStates, action \in ActionSet, reward \in AgentRewards,
       next_state \in {None} \cup {Some(n) : n \in AgentStates} :
        LET key     == state_key(state)
            updated == update(agent.q, state, action, reward, next_state)
            blank   == key \notin DOMAIN agent.q \/ agent.q[key] = ZeroRow
            changed == key \notin DOMAIN agent.q \/ updated[key] # agent.q[key]
        IN  /\ aghost.updates < MaxUpdates
            /\ agent' = [agent EXCEPT !.q = updated]
            /\ acall' = [op |-> "update", state |-> Some(state),
                         next_state |-> next_state, action |-> action,
                         reward |-> reward, explore |-> FALSE]
            /\ aghost' =
                 [updates |-> aghost.updates + 1,
                  boosted |->
                     IF blank /\ action = "take_break"
                              /\ reward = Whole(BigReward)
                     THEN aghost.boosted \cup {key}
                     ELSE IF changed THEN aghost.boosted \ {key}
                     ELSE aghost.boosted]
            /\ UNCHANGED <<appVars, timerVars, scoreVars, sessionTimerVars,
                           envVars,
                   scheduleVars, raceVars>>

AgentNext == AgentSelect \/ AgentUpdate

SpecAgent == AgentInit /\ [][AgentNext]_vars

(***************************************************************************)
(* One StudyEnvironment driven call by call: any sequence of set_state     *)
(* and step(action), the levels set_state installs being arbitrary.        *)
(***************************************************************************)
EnvLevels == {Zero, Frac(45, 100), Frac(1, 2), Frac(95, 100), One, Frac(3, 2)}
EnvTimes  == {Zero, Whole(3600), Whole(36000)}
EnvRatios == {Zero, One}
Optional(S) == {None} \cup {Some(v) : v \in S}   \* an argument left out or given
EnvActions == ActionSet \cup {"rest"}     \* step accepts any string

EnvInit ==
    /\ study = StudyEnvironment_init /\ ecall = NoEnvCall
    /\ schedules = EmptyMap /\ kcall = NoStorageCall /\ ksaved = EmptyMap
    /\ reqs = NoRequests /\ objs = EmptyMap /\ poll = IdlePoll
    /\ agent = RLAgent_init(Frac(1, 10)) /\ acall = NoAgentCall
    /\ aghost = NoUpdates
    /\ stm = SessionTimer_init /\ scall = NoTimerCall /\ sghost = NoInstants
    /\ tnow = 0 /\ pt = ProductivityTimer_init /\ tpre = ProductivityTimer_init
    /\ tcall = NoCall /\ onlyTrue = FALSE
    /\ now = BootClock /\ active = EmptyMap /\ sessions = EmptyMap
    /\ last = NoRequest /\ samples = EmptyMap /\ tick = Sleeping
    /\ camera = "open"
    /\ env = StudyEnvironment_init /\ q = EmptyMap /\ nrec = 0
    /\ scope = "sessions"
    /\ arg_p = 0 /\ arg_t = 0 /\ result = None

EnvSetState ==
    \E level \in Optional(EnvLevels), time \in Optional(EnvTimes),
       ratio \in Optional(EnvRatios) :
        /\ study' = set_state(study, level, time, ratio)
        /\ ecall' = [op |-> "set_state", action |-> "none",
                     args |-> << level, time, ratio >>, pre |-> Some(study),
                     reward |-> Zero, done |-> FALSE, state |-> None]
        /\ UNCHANGED <<appVars, timerVars, scoreVars, sessionTimerVars,
                       agentVars,
                   scheduleVars, raceVars>>

EnvStep ==
    \E action \in EnvActions :
        LET stepped == step(study, action)
        IN  /\ study' = stepped.env
            /\ ecall' = [op |-> "step", action |-> action, args |-> << >>,
                         pre |-> Some(study),
                         reward |-> stepped.reward, done |-> stepped.done,
                         state |-> Some(get_state(stepped.env))]
            /\ UNCHANGED <<appVars, timerVars, scoreVars, sessionTimerVars,
                           agentVars,
                   scheduleVars, raceVars>>

EnvNext == EnvSetState \/ EnvStep

SpecEnv == EnvInit /\ [][EnvNext]_vars

(***************************************************************************)
(* The schedule storage driven call by call: any sequence of               *)
(* save_schedule(schedule) (what POST /schedule does) and                  *)
(* get_schedule(schedule_id).                                              *)
(***************************************************************************)
MaxTasks == 2
ScheduleIds == {"a", "b"}
TaskPool ==
    {[id |-> "t1", name |-> "read", duration_minutes |-> 25,
      completed |-> FALSE],
     [id |-> "t2", name |-> "quiz", duration_minutes |-> 1,
      completed |-> TRUE],
     [id |-> "t1", name |-> "quiz", duration_minutes |-> 1,
      completed |-> FALSE]}
TaskLists == UNION {[1 .. n -> TaskPool] : n \in 0 .. MaxTasks}
IntervalChoices == {Some(<< >>), Some(<< 5, 10 >>)}
Schedules ==
    {[id |-> i, tasks |-> t, intervals |-> v, recurrence |-> None] :
        i \in ScheduleIds, t \in TaskLists, v \in IntervalChoices}

ScheduleInit ==
    /\ schedules = EmptyMap /\ kcall = NoStorageCall /\ ksaved = EmptyMap
    /\ reqs = NoRequests /\ objs = EmptyMap /\ poll = IdlePoll
    /\ study = StudyEnvironment_init /\ ecall = NoEnvCall
    /\ agent = RLAgent_init(Frac(1, 10)) /\ acall = NoAgentCall
    /\ aghost = NoUpdates
    /\ stm = SessionTimer_init /\ scall = NoTimerCall /\ sghost = NoInstants
    /\ tnow = 0 /\ pt = ProductivityTimer_init /\ tpre = ProductivityTimer_init
    /\ tcall = NoCall /\ onlyTrue = FALSE
    /\ now = BootClock /\ active = EmptyMap /\ sessions = EmptyMap
    /\ last = NoRequest /\ samples = EmptyMap /\ tick = Sleeping
    /\ camera = "open"
    /\ env = StudyEnvironment_init /\ q = EmptyMap /\ nrec = 0
    /\ scope = "sessions"
    /\ arg_p = 0 /\ arg_t = 0 /\ result = None

\* POST /schedule: save_schedule(schedule)
SubmitSchedule ==
    \E schedule \in Schedules :
        /\ schedules' = save_schedule(schedules, schedule)
        /\ kcall' = [op |-> "save", id |-> schedule.id, ret |-> None]
        /\ ksaved' = Put(ksaved, schedule.id, schedule)
        /\ UNCHANGED <<appVars, timerVars, scoreVars, sessionTimerVars,
                       agentVars, envVars, raceVars>>

GetSchedule ==
    \E schedule_id \in ScheduleIds \cup {"unknown"} :
        /\ kcall' = [op |-> "get", id |-> schedule_id,
                     ret |-> get_schedule(schedules, schedule_id)]
        /\ UNCHANGED <<schedules, ksaved, appVars, timerVars, scoreVars,
                       sessionTimerVars, agentVars, envVars, raceVars>>

ScheduleNext == SubmitSchedule \/ GetSchedule

SpecSchedule == ScheduleInit /\ [][ScheduleNext]_vars

(***************************************************************************)
(* Properties of calculate_productivity_score (checked under SpecScore).   *)
(***************************************************************************)
\* C6: for every productive_seconds and every total_seconds <= 0 the score
\* is 0.0 and nothing is raised (the division is not attempted).
C6_ZeroOnNonPositiveTotal ==
    (result # None /\ arg_t <= 0) => Val(result) = Returned(Zero)

C6_Witness == result # None /\ arg_t = 0 /\ arg_p > 0

\* C7: for every productive_seconds and every total_seconds > 0 the score
\* lies in [0, 1]; it is productive/total when that ratio is in [0, 1],
\* 1 when the ratio exceeds 1 and 0 when the ratio is negative.
C7_ClampedRatio ==
    (result # None /\ arg_t > 0) =>
        LET r == Val(result) IN
        /\ r.exc = "none"
        /\ r.val[2] > 0
        /\ 0 <= r.val[1] /\ r.val[1] <= r.val[2]
        /\ (0 <= arg_p /\ arg_p <= arg_t) => r.val[1] * arg_t = arg_p * r.val[2]
        /\ arg_p > arg_t => r.val = One
        /\ arg_p < 0 => r.val = Zero

C7_Witness == result # None /\ arg_t > 0 /\ arg_p > arg_t /\ Val(result).val = One

(***************************************************************************)
(* Properties of ProductivityTimer (checked under SpecTimer).  tpre, tcall *)
(* and pt are the timer before the last call, that call, and the timer     *)
(* after it.                                                               *)
(***************************************************************************)
\* C8: after start() at t0 (t0 = 0 included) followed only by update(True)
\* calls at non-decreasing instants, productive_seconds is the sum of the
\* deltas, that is the instant of the last call minus t0.
C8_SumOfDeltas ==
    onlyTrue => pt.productive_seconds = tcall.at - Val(pt.start_time)

\* C9: update(False) never changes productive_seconds (only the last-sample
\* instant advances), and update(b) before start() or after stop() changes
\* no field of the timer.
C9_UpdateFrame ==
    tcall.op = "update" =>
        /\ ~tcall.arg => pt.productive_seconds = tpre.productive_seconds
        /\ (~tcall.arg /\ Running(tpre)) =>
               pt = [tpre EXCEPT !.last_update_time = Some(tcall.at)]
        /\ ~Running(tpre) => pt = tpre

C9_Witness ==
    /\ tcall.op = "update" /\ ~tcall.arg /\ Running(tpre)
    /\ tpre.productive_seconds > 0
    /\ tcall.at > Val(tpre.last_update_time)
    /\ pt.last_update_time = Some(tcall.at)

\* C10 as stated: over every sequence of start(), update(b) and stop() calls
\* productive_seconds is >= 0, never decreases from one call to the next, and
\* changes only in a call made while the timer is running.
C10_MonotoneOverAllCalls ==
    /\ pt.productive_seconds >= 0
    /\ pt.productive_seconds >= tpre.productive_seconds
    /\ pt.productive_seconds # tpre.productive_seconds => Running(tpre)

\* C10 amended: productive_seconds is >= 0; update(b) and stop() never
\* decrease it and it changes only in an update made while the timer is
\* running; start() resets it to 0.
C10_MonotoneExceptRestart ==
    /\ pt.productive_seconds >= 0
    /\ tcall.op = "start" => pt.productive_seconds = 0
    /\ tcall.op \in {"stop", "update"} =>
           /\ pt.productive_seconds >= tpre.productive_seconds
           /\ pt.productive_seconds # tpre.productive_seconds =>
                  (Running(tpre) /\ tcall.op = "update")

C10_Witness ==
    /\ tcall.op = "update" /\ tpre.productive_seconds > 0
    /\ pt.productive_seconds > tpre.productive_seconds


(***************************************************************************)
(* Properties of SessionTimer (checked under SpecSessionTimer).            *)
(***************************************************************************)
\* C11: elapsed() returns 0 while start() was never called (even after a
\* stop()); after start() at s and stop() at e it returns e - s however late
\* it is asked; while started and not stopped it returns now - s.
C11_Elapsed ==
    scall.op = "elapsed" =>
        scall.ret = IF sghost.s = None THEN 0
                    ELSE IF sghost.e # None THEN Val(sghost.e) - Val(sghost.s)
                    ELSE scall.at - Val(sghost.s)

C11_Witness ==
    /\ scall.op = "elapsed"
    /\ sghost.e # None
    /\ scall.at > Val(sghost.e)
    /\ scall.ret > 0

(***************************************************************************)
(* Properties of RLAgent (checked under SpecAgent).                        *)
(***************************************************************************)
IndexOf(a) == CHOOSE i \in 1 .. Len(Actions) : Actions[i] = a

\* C12: with epsilon = 0, select_action(state) returns an action whose
\* Q-value is maximal in the row of the state's key, the earliest one in the
\* order continue, take_break, encourage among tied maxima; for a row that
\* is all zero (a key never seen before) it returns continue.
C12_GreedyFirstMax ==
    (acall.op = "select" /\ agent.epsilon = Zero) =>
        LET row == agent.q[state_key(Val(acall.state))]
        IN  /\ \A a \in ActionSet : RLeq(row[a], row[acall.action])
            /\ \A a \in ActionSet :
                  IndexOf(a) < IndexOf(acall.action) =>
                      RLess(row[a], row[acall.action])
            /\ row = ZeroRow => acall.action = "continue"

C12_Witness ==
    /\ acall.op = "select" /\ agent.epsilon = Zero
    /\ acall.action = "take_break"
    /\ LET row == agent.q[state_key(Val(acall.state))]
       IN  row["encourage"] = row["take_break"] /\ RLess(Zero, row["take_break"])

\* C13: with epsilon = 0, once an all-zero (or unseen) row received one
\* update for take_break with a large positive reward, select_action on any
\* state with that key returns take_break until another update changes the
\* row.
C13_BoostedTakeBreak ==
    (acall.op = "select" /\ agent.epsilon = Zero
        /\ state_key(Val(acall.state)) \in aghost.boosted)
        => acall.action = "take_break"

C13_Witness ==
    /\ acall.op = "select" /\ agent.epsilon = Zero
    /\ state_key(Val(acall.state)) \in aghost.boosted
    /\ aghost.updates = MaxUpdates
    /\ Val(acall.state).attention_level = Frac(7, 10)

\* C16 as stated: after a select_action or update call, the key of `state`
\* and the key of `next_state` are both rows of the Q-table.
C16_EveryAccessedKeyMaterialized ==
    acall.op \in {"select", "update"} =>
        /\ state_key(Val(acall.state)) \in DOMAIN agent.q
        /\ acall.next_state # None =>
               state_key(Val(acall.next_state)) \in DOMAIN agent.q

\* C16 amended: a call materializes exactly the key of `state`, as a row
\* with the three actions at 0 (update then writes the one action it was
\* called for); the key of `next_state` is not inserted, an unseen one is
\* read as 0; every row holds the three actions and no other row changes.
C16_StateKeyMaterialized ==
    [][ acall'.op \in {"select", "update"} =>
          LET key   == state_key(Val(acall'.state))
              fresh == key \notin DOMAIN agent.q
              q_old == IF fresh THEN Zero ELSE agent.q[key][acall'.action]
          IN  /\ DOMAIN agent'.q = DOMAIN agent.q \cup {key}
              /\ \A k \in DOMAIN agent'.q : DOMAIN agent'.q[k] = ActionSet
              /\ \A k \in DOMAIN agent.q \ {key} : agent'.q[k] = agent.q[k]
              /\ (fresh /\ acall'.op = "select") => agent'.q[key] = ZeroRow
              /\ (fresh /\ acall'.op = "update") =>
                     \A a \in ActionSet \ {acall'.action} :
                         agent'.q[key][a] = Zero
              /\ (acall'.op = "update" /\ acall'.next_state # None
                    /\ state_key(Val(acall'.next_state)) \notin DOMAIN agent.q
                    /\ aghost'.updates # aghost.updates) =>
                     agent'.q[key][acall'.action] =
                         RAdd(q_old, RMul(learning_rate,
                                          RSub(acall'.reward, q_old))) ]_vars

C16_Witness ==
    /\ acall.op = "update" /\ acall.next_state # None
    /\ state_key(Val(acall.next_state)) \notin DOMAIN agent.q
    /\ agent.q[state_key(Val(acall.state))][acall.action] # Zero

(***************************************************************************)
(* Properties of StudyEnvironment (checked under SpecEnv).                 *)
(***************************************************************************)
\* C14: from every state, step(take_break) leaves attention_level = 1.0
\* with reward 0.1, step(encourage) leaves min(1.0, previous + 0.1) with
\* reward 0.05, which stays at or below 1.0 when the previous level was, and
\* every step returns done = false.
C14_BreakAndEncourage ==
    ecall.op = "step" =>
        LET before == Val(ecall.pre).attention_level
            after  == study.attention_level
        IN  /\ ecall.done = FALSE
            /\ Val(ecall.state).attention_level = after
            /\ ecall.action = "take_break" =>
                   (after = One /\ ecall.reward = Frac(1, 10))
            /\ ecall.action = "encourage" =>
                   /\ ecall.reward = Frac(5, 100)
                   /\ after = IF RLeq(RAdd(before, Frac(1, 10)), One)
                              THEN RAdd(before, Frac(1, 10)) ELSE One
                   /\ RLeq(before, One) => RLeq(after, One)

C14_Witness ==
    /\ ecall.op = "step" /\ ecall.action = "encourage"
    /\ Val(ecall.pre).attention_level = Frac(95, 100)
    /\ study.attention_level = One

(***************************************************************************)
(* Properties of a whole session (checked under Spec, in the runs that     *)
(* record the samples).                                                    *)
(***************************************************************************)
\* the samples of `id` are spaced by d from the start of both timers, the
\* last one being the stop's own sample, taken when the timers stop
EvenlySampled(id, d) ==
    LET o     == Val(last.obs)
        start == Val(o.pre.session_timer.start_time)
        h     == samples[id]
    IN  /\ Val(o.pre.productivity_timer.start_time) = start
        /\ \A i \in 1 .. Len(h) : h[i].at = start + i * d
        /\ o.t_sample = start + Len(h) * d
        /\ o.t_stop = o.t_sample

Attentive(id) == {i \in 1 .. Len(samples[id]) : samples[id][i].attentive}

\* C15: a session sampled at evenly spaced ticks of period d until the stop
\* (whose sample is the last one), k of the n samples being attentive and the
\* duration being n*d, is summarized with duration_minutes = n*d/60 and
\* productivity_score = k/n, whatever the order of the samples.
C15_EvenSamplesScore ==
    (last.op = "stop" /\ last.status = 200 /\ Recording) =>
        \A d \in 1 .. Horizon :
            EvenlySampled(last.id, d) =>
                LET n == Len(samples[last.id])
                    k == Cardinality(Attentive(last.id))
                IN  /\ Val(last.resp).duration_minutes = Frac(n * d, 60)
                    /\ Val(last.resp).productivity_score = Frac(k, n)

C15_Witness ==
    /\ last.op = "stop" /\ last.status = 200 /\ Recording
    /\ \E d \in 1 .. Horizon : EvenlySampled(last.id, d)
    /\ Len(samples[last.id]) = 4
    /\ Cardinality(Attentive(last.id)) = 3
    /\ ~samples[last.id][2].attentive

(***************************************************************************)
(* Properties of get_recommendation (checked under Spec).                  *)
(***************************************************************************)
\* the environment a request for `id` works on: overwritten from the
\* session's ProductivityTimer when id is open, left as it is otherwise
SyncedEnv(id) ==
    IF id # NoId /\ id \in DOMAIN active
    THEN LET prod_timer == active[id].productivity_timer
             total      == now - Val(prod_timer.start_time)
             ratio      == IF total > 0
                           THEN Frac(prod_timer.productive_seconds, total)
                           ELSE Zero
         IN  [attention_level |-> ratio,
              time_in_session_seconds |-> Whole(total),
              productive_ratio |-> ratio]
    ELSE env

Served == last'.op = "recommend" /\ nrec' = nrec + 1

\* C17: get_recommendation(session_id) overwrites the three fields of the
\* shared environment from the session's ProductivityTimer (ratio
\* productive/total, 0 when total is 0) only when session_id is open, not
\* when it is absent, unknown or closed; it then steps the environment with
\* the selected action and trains the agent with the transition (pre-step
\* snapshot, selected action, the step's reward, post-step state).
C17_SyncSelectStepTrain ==
    [][ Served =>
          LET state   == SyncedEnv(last'.id)
              action  == Val(last'.resp).action
              stepped == step(state, action)
          IN  /\ env' = stepped.env
              /\ q' = update(q, state, action, stepped.reward,
                             Some(stepped.env)) ]_vars

C17_Witness ==
    /\ last.op = "recommend" /\ last.id \in DOMAIN active
    /\ env.time_in_session_seconds # Zero
    /\ env.productive_ratio # Zero
    /\ nrec = 2

TickEnds == tick.pc = "iter" /\ tick'.pc # "iter"

\* C19: a tick takes one sample and applies it to the ProductivityTimer of
\* every open session, also when start_session or stop_session run during
\* the tick: when the tick ends, every session that was open from its
\* beginning to its end has been given the sample.
C19_NoOpenSessionSkipped ==
    [][ TickEnds => (tick.opened \cap DOMAIN active) \subseteq tick.visited ]_vars

\* C20: a tick whose frame capture or attention sampling fails ends without
\* touching the open-session set and leaves the task waiting for its next
\* tick; whatever the outcomes of the ticks and whatever sessions start and
\* stop, the task keeps beginning new ticks for ever unless it is shut down.
C20_FailedTickSwallowed ==
    /\ [][ (tick'.turn # tick.turn /\ tick'.sample = "error") =>
               (tick'.pc = "sleep" /\ active' = active) ]_vars
    /\ [](tick.pc \in {"sleep", "iter", "cancelling", "cancelled"})
    /\ \/ <>(tick.pc = "cancelling")
       \/ ([]<>(tick.turn = 0) /\ []<>(tick.turn = 1))

C20_Witness ==
    /\ tick.pc = "iter"
    /\ tick.outcome \in {"failed", "raised"}
    /\ DOMAIN active # {}

\* C21: on shutdown the polling task is cancelled and its end is awaited
\* before the camera is released: the release comes after the task's last
\* step, and the task takes no step (captures no frame) once the camera is
\* released.
C21_ReleaseAfterTaskEnded ==
    [][ /\ (camera = "open" /\ camera' = "released") =>
               (tick.pc = "cancelled" /\ tick' = tick)
        /\ camera = "released" => (tick' = tick /\ camera' = "released") ]_vars

C21_Witness ==
    /\ camera = "released"
    /\ tick.pc = "cancelled"
    /\ tick.outcome = "done" /\ tick.visited # {}

(***************************************************************************)
(* Properties of the schedule storage (checked under SpecSchedule).        *)
(***************************************************************************)
\* C22: get_schedule(id) after save_schedule(s) with s.id = id returns the
\* tasks of the schedule saved last under that id, in the same order and
\* with the same id, name, duration_minutes and completed; a later save
\* under the same id replaces the earlier one; get_schedule of an id never
\* saved returns none.
C22_ScheduleRoundTrip ==
    kcall.op = "get" =>
        IF kcall.id \in DOMAIN ksaved
        THEN /\ kcall.ret # None
             /\ Val(kcall.ret).id = kcall.id
             /\ Len(Val(kcall.ret).tasks) = Len(ksaved[kcall.id].tasks)
             /\ \A i \in 1 .. Len(ksaved[kcall.id].tasks) :
                   LET got  == Val(kcall.ret).tasks[i]
                       sent == ksaved[kcall.id].tasks[i]
                   IN  /\ got.id = sent.id /\ got.name = sent.name
                       /\ got.duration_minutes = sent.duration_minutes
                       /\ got.completed = sent.completed
        ELSE kcall.ret = None

C22_Witness ==
    /\ kcall.op = "get" /\ kcall.ret # None
    /\ Len(Val(kcall.ret).tasks) = 2
    /\ Val(kcall.ret).tasks[1].id = "t2" /\ Val(kcall.ret).tasks[2].id = "t1"
    /\ Val(kcall.ret).tasks[1].completed
    /\ DOMAIN ksaved = ScheduleIds

(***************************************************************************)
(* Further properties of RLAgent (checked under SpecAgent).                *)
(***************************************************************************)
\* C23: update(s, a, r, s') sets Q(key(s), a) to
\* Q_old + alpha * (target - Q_old), where target = r + gamma * (the largest
\* Q-value the table held for key(s') before the call, 0 for an unseen key)
\* when s' is supplied and target = r when it is not; the value of every
\* other (state key, action) entry is what it was before the call (0 for an
\* entry of a row created by the call).
C23_OneStepQLearning ==
    [][ (acall'.op = "update" /\ aghost'.updates # aghost.updates) =>
          LET key     == state_key(Val(acall'.state))
              a       == acall'.action
              Old(k, b) == IF k \in DOMAIN agent.q THEN agent.q[k][b] ELSE Zero
              nkey    == state_key(Val(acall'.next_state))
              q_old   == Old(key, a)
          IN  /\ \E best \in ActionSet :
                    /\ acall'.next_state # None =>
                           \A b \in ActionSet : RLeq(Old(nkey, b), Old(nkey, best))
                    /\ LET target == IF acall'.next_state # None
                                     THEN RAdd(acall'.reward,
                                               RMul(gamma, Old(nkey, best)))
                                     ELSE acall'.reward
                       IN  agent'.q[key][a] =
                               RAdd(q_old,
                                    RMul(learning_rate, RSub(target, q_old)))
              /\ \A k \in DOMAIN agent'.q : \A b \in ActionSet :
                    << k, b >> # << key, a >> => agent'.q[k][b] = Old(k, b) ]_vars

C23_Witness ==
    /\ acall.op = "update" /\ acall.next_state # None
    /\ aghost.updates = 2
    /\ state_key(Val(acall.next_state)) = state_key(Val(acall.state))
    /\ acall.reward = Whole(BigReward)
    /\ agent.q[state_key(Val(acall.state))][acall.action] = Frac(1999, 1000)

(***************************************************************************)
(* Further properties of StudyEnvironment (checked under SpecEnv).         *)
(***************************************************************************)
\* C24: step(continue) lowers attention_level by
\* 0.001 * (time_in_session_seconds / 60), stopping at 0.0, and returns
\* reward +0.02 when the level after the decay is above 0.5 and -0.02
\* otherwise; a step with any action, a recognised one or not, leaves
\* time_in_session_seconds and productive_ratio as they were.
C24_ContinueDecay ==
    ecall.op = "step" =>
        LET before == Val(ecall.pre).attention_level
            after  == study.attention_level
            lost   == RMul(Frac(1, 1000),
                           RMul(Val(ecall.pre).time_in_session_seconds,
                                Frac(1, 60)))
        IN  /\ study.time_in_session_seconds =
                   Val(ecall.pre).time_in_session_seconds
            /\ study.productive_ratio = Val(ecall.pre).productive_ratio
            /\ ecall.action = "continue" =>
                   /\ after = IF RLeq(lost, before) THEN RSub(before, lost)
                              ELSE Zero
                   /\ RLeq(Zero, after)
                   /\ ecall.reward = IF RLess(Frac(1, 2), after)
                                     THEN Frac(2, 100) ELSE Frac(-2, 100)

C24_Witness ==
    /\ ecall.op = "step" /\ ecall.action = "continue"
    /\ Val(ecall.pre).attention_level = Frac(95, 100)
    /\ study.attention_level = Frac(35, 100)
    /\ study.time_in_session_seconds = Whole(36000)
    /\ ecall.reward = Frac(-2, 100)

\* C25: set_state overwrites exactly the fields it is given, a given 0
\* included, and leaves every field it is not given as it was; with no
\* field given it changes nothing.
C25_SetStateExactFields ==
    ecall.op = "set_state" =>
        LET pre == Val(ecall.pre)
            Given(i, old) == IF ecall.args[i] # None THEN Val(ecall.args[i])
                             ELSE old
        IN  /\ study.attention_level = Given(1, pre.attention_level)
            /\ study.time_in_session_seconds =
                   Given(2, pre.time_in_session_seconds)
            /\ study.productive_ratio = Given(3, pre.productive_ratio)
            /\ ecall.args = << None, None, None >> => study = pre

C25_Witness ==
    /\ ecall.op = "set_state"
    /\ ecall.args = << Some(Zero), None, Some(Zero) >>
    /\ Val(ecall.pre).attention_level = Frac(95, 100)
    /\ Val(ecall.pre).productive_ratio = One
    /\ study = [attention_level |-> Zero,
                time_in_session_seconds |-> Whole(3600),
                productive_ratio |-> Zero]

\* C26: the Q-table never holds more than 27 keys, every key is three
\* buckets b_att, b_time, b_prod out of {0, 1, 2}, the key a call uses is
\* found by the rule "below the first threshold -> 0, below the second -> 1,
\* else 2" on attention_level, time_in_session_seconds / 3600 and
\* productive_ratio, every row holds exactly continue, take_break and
\* encourage, and a key present before a select_action or update (called
\* with one of the three actions) is present after it.
C26_KeysBoundedAndKept ==
    [][ LET Bucket(v, first, second) ==
                IF RLess(v, first) THEN 0 ELSE IF RLess(v, second) THEN 1 ELSE 2
            KeyOf(st) ==
                << Bucket(st.attention_level, Frac(33, 100), Frac(66, 100)),
                   Bucket(RMul(st.time_in_session_seconds, Frac(1, 3600)),
                          Frac(1, 4), Frac(1, 2)),
                   Bucket(st.productive_ratio, Frac(33, 100), Frac(66, 100)) >>
        IN  /\ DOMAIN agent.q \subseteq DOMAIN agent'.q
            /\ DOMAIN agent'.q \subseteq {0, 1, 2} \X {0, 1, 2} \X {0, 1, 2}
            /\ Cardinality(DOMAIN agent'.q) <= 27
            /\ \A k \in DOMAIN agent'.q :
                  DOMAIN agent'.q[k] = {"continue", "take_break", "encourage"}
            /\ acall'.op \in {"select", "update"} =>
                  /\ KeyOf(Val(acall'.state)) \in DOMAIN agent'.q
                  /\ DOMAIN agent'.q \subseteq
                         DOMAIN agent.q \cup {KeyOf(Val(acall'.state))} ]_vars

C26_Witness ==
    /\ DOMAIN agent.q = {<< 2, 0, 2 >>, << 1, 1, 2 >>}
    /\ acall.op = "select"
    /\ Val(acall.state).attention_level = Frac(33, 100)
    /\ aghost.updates = 2

(***************************************************************************)
(* stop_session statement by statement.  The endpoint is a plain `def`,    *)
(* which FastAPI runs on a worker thread: two calls and the polling task   *)
(* (on the event loop) share _active_sessions and the timers without a     *)
(* lock, so their statements interleave.  `active` maps an open session id *)
(* to the key of its entry in `objs`.                                      *)
(***************************************************************************)
MaxRaceClock == 3
RaceIds == {"s1"}
stopFrame == <<last, env, q, nrec, scope, samples, tick, camera, timerVars, scoreVars, sessionTimerVars, agentVars, envVars, scheduleVars>>

\* ProductivityTimer.update, lines 50-53: the guard, `now` and `delta`
ProductivityTimer_update_read(t, clock) ==
    [at |-> clock, delta |-> clock - OrElse(t.last_update_time, clock)]

\* ProductivityTimer.update, lines 54-56
ProductivityTimer_update_write(t, is_attentive, read) ==
    [t EXCEPT !.last_update_time = Some(read.at),
              !.productive_seconds =
                  IF is_attentive /\ read.delta > 0 THEN @ + read.delta ELSE @]

RaceInit ==
    /\ reqs = NoRequests /\ objs = EmptyMap /\ poll = IdlePoll
    /\ schedules = EmptyMap /\ kcall = NoStorageCall /\ ksaved = EmptyMap
    /\ study = StudyEnvironment_init /\ ecall = NoEnvCall
    /\ agent = RLAgent_init(Frac(1, 10)) /\ acall = NoAgentCall
    /\ aghost = NoUpdates
    /\ stm = SessionTimer_init /\ scall = NoTimerCall /\ sghost = NoInstants
    /\ tnow = 0 /\ pt = ProductivityTimer_init /\ tpre = ProductivityTimer_init
    /\ tcall = NoCall /\ onlyTrue = FALSE
    /\ now = BootClock /\ active = EmptyMap /\ sessions = EmptyMap
    /\ last = NoRequest /\ samples = EmptyMap /\ tick = Sleeping
    /\ camera = "open"
    /\ env = StudyEnvironment_init /\ q = EmptyMap /\ nrec = 0
    /\ scope = "sessions"
    /\ arg_p = 0 /\ arg_t = 0 /\ result = None

\* time.monotonic() / datetime.utcnow() move on between two statements
RaceAdvance ==
    /\ now < MaxRaceClock
    /\ now' = now + 1
    /\ UNCHANGED <<active, sessions, reqs, objs, poll, stopFrame>>

\* POST /session/start (a fresh uuid4 each time)
RaceStart ==
    \E session_id \in RaceIds, lag \in Lags :
        LET created == create_session(sessions, Session(session_id, now + lag))
        IN  /\ now + lag <= MaxRaceClock
            /\ session_id \notin DOMAIN objs
            /\ created.exc = "none"
            /\ now' = now + lag
            /\ sessions' = created.tbl
            /\ objs' = Put(objs, session_id,
                   [session_timer |->
                        SessionTimer_start(SessionTimer_init, now),
                    productivity_timer |->
                        ProductivityTimer_start(ProductivityTimer_init,
                                                now + lag)])
            /\ active' = Put(active, session_id, session_id)
            /\ UNCHANGED <<reqs, poll, stopFrame>>

\* lines 167-169
StopCheck ==
    \E r \in Threads, session_id \in RaceIds :
        /\ reqs[r].pc = "idle"
        /\ reqs' = [reqs EXCEPT ![r] =
               IF ~stop_session_known(session_id)
               THEN [@ EXCEPT !.pc = "done", !.session_id = session_id,
                              !.status = 404]
               ELSE [@ EXCEPT !.pc = "pop", !.session_id = session_id,
                              !.checked = TRUE]]
        /\ UNCHANGED <<now, active, sessions, objs, poll, stopFrame>>

\* line 171: pop() raises KeyError when the id is gone, which the framework
\* answers with 500
StopPop ==
    \E r \in Threads :
        /\ reqs[r].pc = "pop"
        /\ IF reqs[r].session_id \in DOMAIN active
           THEN /\ active' = Without(active, reqs[r].session_id)
                /\ reqs' = [reqs EXCEPT ![r].pc = "sample"]
           ELSE /\ reqs' = [reqs EXCEPT ![r].pc = "done", ![r].status = 500]
                /\ UNCHANGED active
        /\ UNCHANGED <<now, sessions, objs, poll, stopFrame>>

\* lines 175-176
StopCapture ==
    \E r \in Threads, sample \in Samples :
        /\ reqs[r].pc = "sample"
        /\ reqs' = [reqs EXCEPT ![r] =
               IF sample = "error"
               THEN [@ EXCEPT !.pc = "done", !.status = 500]
               ELSE [@ EXCEPT !.pc = "update", !.sample = sample]]
        /\ UNCHANGED <<now, active, sessions, objs, poll, stopFrame>>

\* line 177, first half of update
StopUpdateRead ==
    \E r \in Threads :
        LET t == objs[reqs[r].session_id].productivity_timer
        IN  /\ reqs[r].pc = "update"
            /\ reqs' = [reqs EXCEPT ![r] =
                   IF ~Running(t) THEN [@ EXCEPT !.pc = "stop_session_timer"]
                   ELSE [@ EXCEPT !.pc = "update_write",
                            !.read = ProductivityTimer_update_read(t, now)]]
            /\ UNCHANGED <<now, active, sessions, objs, poll, stopFrame>>

\* line 177, second half of update
StopUpdateWrite ==
    \E r \in Threads :
        /\ reqs[r].pc = "update_write"
        /\ objs' = [objs EXCEPT ![reqs[r].session_id].productivity_timer =
               ProductivityTimer_update_write(@, reqs[r].sample = "attentive",
                                              reqs[r].read)]
        /\ reqs' = [reqs EXCEPT ![r].pc = "stop_session_timer"]
        /\ UNCHANGED <<now, active, sessions, poll, stopFrame>>

\* line 179
StopSessionTimer ==
    \E r \in Threads :
        /\ reqs[r].pc = "stop_session_timer"
        /\ objs' = [objs EXCEPT ![reqs[r].session_id].session_timer =
                       SessionTimer_stop(@, now)]
        /\ reqs' = [reqs EXCEPT ![r].pc = "stop_productivity_timer"]
        /\ UNCHANGED <<now, active, sessions, poll, stopFrame>>

\* line 180
StopProductivityTimer ==
    \E r \in Threads :
        /\ reqs[r].pc = "stop_productivity_timer"
        /\ objs' = [objs EXCEPT ![reqs[r].session_id].productivity_timer =
                       ProductivityTimer_stop(@, now)]
        /\ reqs' = [reqs EXCEPT ![r].pc = "read"]
        /\ UNCHANGED <<now, active, sessions, poll, stopFrame>>

\* lines 182-183
StopRead ==
    \E r \in Threads :
        LET entry == objs[reqs[r].session_id]
        IN  /\ reqs[r].pc = "read"
            /\ reqs' = [reqs EXCEPT ![r] =
                   [@ EXCEPT !.pc = "persist",
                      !.total_seconds =
                          SessionTimer_elapsed(entry.session_timer, now),
                      !.productive_seconds =
                          entry.productivity_timer.productive_seconds]]
            /\ UNCHANGED <<now, active, sessions, objs, poll, stopFrame>>

\* lines 184-198
StopPersist ==
    \E r \in Threads :
        LET session_id == reqs[r].session_id
            total_seconds == reqs[r].total_seconds
            productive_seconds == reqs[r].productive_seconds
            score == calculate_productivity_score(productive_seconds,
                                                  total_seconds)
            found == get_session(sessions, session_id)
        IN  /\ reqs[r].pc = "persist"
            /\ IF score.exc # "none"
               THEN /\ reqs' = [reqs EXCEPT ![r].pc = "done",
                                            ![r].status = 500]
                    /\ UNCHANGED sessions
               ELSE /\ sessions' =
                         IF found # None
                         THEN update_session(sessions,
                                [Val(found) EXCEPT
                                   !.end_time = Some(now),
                                   !.duration_minutes = Minutes(total_seconds),
                                   !.productivity_score = score.val,
                                   !.productive_seconds = productive_seconds])
                         ELSE sessions
                    /\ reqs' = [reqs EXCEPT ![r].pc = "done",
                           ![r].status = 200,
                           ![r].body =
                               Some([session_id |-> session_id,
                                     duration_minutes |-> Minutes(total_seconds),
                                     productivity_score |-> score.val])]
            /\ UNCHANGED <<now, active, objs, poll, stopFrame>>

\* lines 69-71: one sample for the tick; an exception ends the iteration
RaceSample ==
    \E sample \in Samples :
        /\ poll.pc = "sleep" /\ poll.at < now
        /\ poll' = IF sample = "error" THEN [poll EXCEPT !.at = now]
                   ELSE [poll EXCEPT !.pc = "iter", !.at = now,
                            !.sample = sample, !.visited = {},
                            !.size = Cardinality(DOMAIN active)]
        /\ UNCHANGED <<now, active, sessions, reqs, objs, stopFrame>>

\* lines 71-72: the iterator yields the next entry
RaceVisit ==
    \E session_id \in DOMAIN active \ poll.visited :
        /\ poll.pc = "iter" /\ poll.size = Cardinality(DOMAIN active)
        /\ poll' = [poll EXCEPT !.pc = "update", !.entry = active[session_id],
                                !.visited = @ \cup {session_id}]
        /\ UNCHANGED <<now, active, sessions, reqs, objs, stopFrame>>

\* line 71: the iterator is exhausted, or raises RuntimeError because the
\* dict changed size; lines 74-76 either way
RaceDone ==
    /\ poll.pc = "iter"
    /\ \/ poll.size # Cardinality(DOMAIN active)
       \/ DOMAIN active \subseteq poll.visited
    /\ poll' = [poll EXCEPT !.pc = "sleep"]
    /\ UNCHANGED <<now, active, sessions, reqs, objs, stopFrame>>

\* line 73, first half of update
RaceUpdateRead ==
    LET t == objs[poll.entry].productivity_timer
    IN  /\ poll.pc = "update"
        /\ poll' = IF ~Running(t) THEN [poll EXCEPT !.pc = "iter"]
                   ELSE [poll EXCEPT !.pc = "update_write",
                            !.read = ProductivityTimer_update_read(t, now)]
        /\ UNCHANGED <<now, active, sessions, reqs, objs, stopFrame>>

\* line 73, second half of update
RaceUpdateWrite ==
    /\ poll.pc = "update_write"
    /\ objs' = [objs EXCEPT ![poll.entry].productivity_timer =
           ProductivityTimer_update_write(@, poll.sample = "attentive",
                                          poll.read)]
    /\ poll' = [poll EXCEPT !.pc = "iter"]
    /\ UNCHANGED <<now, active, sessions, reqs, stopFrame>>

RaceNext ==
    \/ RaceAdvance
    \/ RaceStart
    \/ StopCheck
    \/ StopPop
    \/ StopCapture
    \/ StopUpdateRead
    \/ StopUpdateWrite
    \/ StopSessionTimer
    \/ StopProductivityTimer
    \/ StopRead
    \/ StopPersist
    \/ RaceSample
    \/ RaceVisit
    \/ RaceDone
    \/ RaceUpdateRead
    \/ RaceUpdateWrite

SpecRace == RaceInit /\ [][RaceNext]_vars

(***************************************************************************)
(* Properties of interleaved calls (checked under SpecRace).               *)
(***************************************************************************)
\* C27: for every session closed by stop_session, whatever the
\* interleaving of the polling task with the statements of stop_session,
\* the productive seconds recorded do not exceed the total seconds of the
\* session timer, and the recorded score is productive / total (the clamp
\* to 1.0 does not act).
C27_ProductiveWithinTotal ==
    \A r \in Threads :
        (reqs[r].pc = "done" /\ reqs[r].status = 200) =>
            /\ reqs[r].productive_seconds <= reqs[r].total_seconds
            /\ reqs[r].total_seconds > 0 =>
                   Val(reqs[r].body).productivity_score =
                       Frac(reqs[r].productive_seconds, reqs[r].total_seconds)

\* C28: when two stop_session calls for one open session both pass the
\* membership check, one of them finalizes the record and returns a summary
\* and the other fails with the not-found error (404).
C28_SecondStopNotFound ==
    (\A r \in Threads : reqs[r].pc = "done" /\ reqs[r].checked) =>
        \E r \in Threads :
            /\ reqs[r].status = 200
            /\ \A o \in Threads \ {r} : reqs[o].status = 404

=============================================================================
